---- MODULE Spec2Model ----
(***************************************************************************)
(* A state-machine model of the legal-lens backend (Express routes,        *)
(* middleware, controllers and the storage / Firestore services they       *)
(* call).  Every HTTP request is a process that walks its route's          *)
(* middleware chain and then its controller; each await of an external     *)
(* service is a separate step at which other requests may interleave.      *)
(***************************************************************************)
EXTENDS Integers, Sequences, FiniteSets, TLC

(***************************************************************************)
(* Bounds of the model.                                                    *)
(***************************************************************************)
MaxReq == 2          \* concurrent request slots of the interleaving specifications
MaxClock == 1        \* ticks of the wall clock / server clock
MaxCalls == 3        \* calls of the persistence functions in the store specification
MaxDocs == 3         \* document records in the store of the listing specification
MaxTurns == 2        \* prior turns in a chat request's conversationHistory
MaxTokens == 2       \* tokens on a page of an OCR result

(***************************************************************************)
(* Program constants.                                                      *)
(***************************************************************************)
maxSize == 50 * 1024 * 1024             \* validateFileUpload's ceiling
multerDefaultLimit == 50 * 1024 * 1024  \* multer limits.fileSize when MAX_FILE_SIZE is not set
MaxFileNameLen == 255

Req == 1..MaxReq
Users == {"u1", "u2"}

VARIABLES
  req,          \* request slot -> the request's state (inputs, position, locals, response)
  blobs,        \* object names present in the storage bucket
  documents,    \* Firestore collection 'documents': id -> record
  analyses,     \* Firestore collection 'analyses' : id -> record
  history,      \* Firestore collection 'history'  : uid -> array of entries
  now,          \* Date.now() and the Firestore server clock
  uuids,        \* number of uuidv4() values issued so far
  bucketReady,  \* googleCloud.js module variable `bucket` is set
  expired,      \* identity tokens the provider no longer accepts
  env,          \* process.env
  chatBox       \* Frontend ChatBox component: its props, its state, the sends awaiting onSend
vars == <<req, blobs, documents, analyses, history, now, uuids, bucketReady, expired, env, chatBox>>

(***************************************************************************)
(* Values.                                                                 *)
(***************************************************************************)
BucketName == "bucket"
NoHeader == [scheme |-> "none", token |-> ""]
NoFile == [present |-> FALSE, mimetype |-> "", size |-> 0, originalname |-> ""]
NoObject == [dir |-> "", ts |-> 0, uuid |-> 0, name |-> ""]
NoUri == [scheme |-> "", bucket |-> "", object |-> NoObject]
NoBody == [documentId |-> 0, gcsUri |-> NoUri, question |-> "", message |-> "",
           conversationHistory |-> <<>>]
NoQuery == [page |-> 1, limit |-> 10, sortBy |-> "createdAt", order |-> "desc", documentId |-> 0]
NoCursor == [id |-> 0, key |-> 0]
NoLoc == [documentId |-> 0, analysisId |-> 0, object |-> NoObject, gcsUri |-> NoUri,
          text |-> "", answer |-> "", ocr |-> "", gemini |-> "", lastVisible |-> NoCursor,
          prompt |-> <<>>, contents |-> <<>>]

\* A file name of 256 characters, one more than validateFileUpload accepts.
LongName == "xxxxxxxxxxxxxxxxxxxxxxxxxxxxxxxxxxxxxxxxxxxxxxxxxxxxxxxxxxxxxxxxxxxxxxxxxxxxxxxxxxxxxxxxxxxxxxxxxxxxxxxxxxxxxxxxxxxxxxxxxxxxxxxxxxxxxxxxxxxxxxxxxxxxxxxxxxxxxxxxxxxxxxxxxxxxxxxxxxxxxxxxxxxxxxxxxxxxxxxxxxxxxxxxxxxxxxxxxxxxxxxxxxxxxxxxxxxxxxxxxxxxxxxxxxxx.pdf"

\* The identity provider: which uid a token decodes to.
TokenUid(t) == IF t = "t1" THEN "u1" ELSE IF t = "t2" THEN "u2" ELSE "null"

\* auth.verifyIdToken(idToken): the decoded uid, or "null" when it throws.
verifyIdToken(t) == IF t \in expired THEN "null" ELSE TokenUid(t)

\* Mutant: ids are not fresh, every draw returns its position in the step.
uuidv4Repeating(n) == n

\* uuidv4(): the n-th value drawn in a step; values are numbered in the order of issue
uuidv4(n) == uuids + n

\* `gs://${bucket}/${object}`
GcsUri(obj) == [scheme |-> "gs", bucket |-> BucketName, object |-> obj]

\* the ChatBox component before it is mounted (the backend runs without it)
NoChatBox ==
  [initialMessage |-> "", onSend |-> FALSE, isLoading |-> FALSE, messages |-> <<>>, input |-> "",
   loading |-> FALSE, awaiting |-> <<>>, sends |-> 0]

\* req.baseUrl, req.method and req.path (as segments) of a request not yet received
NoUrl == [mount |-> "", method |-> "", path |-> <<>>]

IdleReq ==
  [route |-> "", chain |-> <<>>, pc |-> "", hdr |-> NoHeader, user |-> "unset",
   file |-> NoFile, reqFile |-> NoFile, body |-> NoBody, id |-> 0, query |-> NoQuery, loc |-> NoLoc,
   ext |-> {}, status |-> 0, error |-> "", out |-> <<>>, url |-> NoUrl]

Init ==
  /\ req = [r \in Req |-> IdleReq]
  /\ blobs = {}
  /\ documents = <<>>
  /\ analyses = <<>>
  /\ history = [u \in Users |-> <<>>]
  /\ now = 0
  /\ uuids = 0
  /\ bucketReady = TRUE
  /\ expired = {}
  /\ env = [NODE_ENV |-> "production", MAX_FILE_SIZE |-> 0]
  /\ chatBox = NoChatBox

Pending(r) == req[r].route # "" /\ req[r].status = 0
Finished(r) == req[r].status # 0
At(r, mw) == Pending(r) /\ req[r].chain # <<>> /\ Head(req[r].chain) = mw
InCtl(r, ctl, pc) == At(r, ctl) /\ req[r].pc = pc

\* res.status(s).json({error: e, ...payload})
Respond(q, s, e, payload) == [q EXCEPT !.status = s, !.error = e, !.out = payload]
\* next()
PassOn(q) == [q EXCEPT !.chain = Tail(@)]

(***************************************************************************)
(* Routes: app.use mounts followed by the router's own chain.              *)
(***************************************************************************)
Chain(route) ==
  CASE route = "POST /api/documents/upload" ->
         <<"authMiddleware", "authMiddleware", "multer", "validateFileUpload", "uploadDocument">>
    [] route = "POST /api/analyze/analyze" ->
         <<"authMiddleware", "authMiddleware", "validateAnalysisRequest", "analyzeDocument">>
    [] route = "POST /api/analyze/chat" ->
         <<"authMiddleware", "authMiddleware", "validateChatRequest", "chatWithDocument">>
    [] route = "GET /api/analyze/:id" ->
         <<"authMiddleware", "authMiddleware", "validateAnalysisId", "getAnalysis">>
    [] route = "DELETE /api/analyze/:id" ->
         <<"authMiddleware", "authMiddleware", "validateAnalysisId", "deleteAnalysis">>
    [] route = "GET /api/analyze/history" ->
         <<"authMiddleware", "authMiddleware", "validatePagination", "getAnalysisHistory">>
    [] route = "GET /api/history" -> <<"authMiddleware", "optionalAuth", "getAnalysisHistory">>
    [] route = "GET /api/history/:id" -> <<"authMiddleware", "optionalAuth", "getAnalysis">>
    [] route = "DELETE /api/history/:id" -> <<"authMiddleware", "optionalAuth", "deleteAnalysis">>
    [] route = "POST /api/upload" -> <<"authMiddleware", "optionalAuth", "uploadFile">>
    [] route = "POST /api/upload/signed-url" ->
         <<"authMiddleware", "optionalAuth", "uploadGetSignedUrl">>
    [] route = "GET /api/documents" -> <<"authMiddleware", "getDocuments">>
    [] route = "DELETE /api/documents/:id" -> <<"authMiddleware", "deleteDocument">>
    [] route = "GET /api/documents/:id/download" -> <<"authMiddleware", "downloadDocument">>
    \* getDocument is exported but documentRoutes.js mounts no route for it; it is
    \* modelled as mounted behind the /api/documents authMiddleware like its siblings
    [] route = "GET /api/documents/:id" -> <<"authMiddleware", "getDocument">>
    [] route \in {"GET /api/analyze/health", "GET /api/history/health", "GET /api/upload/health"} ->
         <<"authMiddleware", "health">>
    [] route = "*" -> <<"authMiddleware", "notFound">>
    [] OTHER -> <<>>

Arrive(r, route, hdr, file, body, id, query) ==
  /\ req[r].route = ""
  /\ \A s \in Req : s < r => req[s].route # ""
  /\ req' = [req EXCEPT ![r] = [IdleReq EXCEPT !.route = route, !.chain = Chain(route),
                                  !.hdr = hdr, !.file = file, !.body = body,
                                  !.id = id, !.query = query]]
  /\ UNCHANGED <<chatBox, blobs, documents, analyses, history, now, uuids, bucketReady, expired, env>>

Tick ==
  /\ now < MaxClock
  /\ now' = now + 1
  /\ UNCHANGED <<chatBox, req, blobs, documents, analyses, history, uuids, bucketReady, expired, env>>

(***************************************************************************)
(* middleware/auth.js                                                      *)
(***************************************************************************)
authMiddleware(r) ==
  /\ At(r, "authMiddleware")
  /\ LET q == req[r]
         uid == verifyIdToken(q.hdr.token)
     IN req' = [req EXCEPT ![r] =
          IF q.hdr.scheme = "none"
            THEN Respond(q, 401, "Authorization header is required", <<>>)
          ELSE IF q.hdr.scheme # "Bearer"
            THEN Respond(q, 401, "Invalid authorization format. Use Bearer <token>", <<>>)
          ELSE IF q.hdr.token = ""
            THEN Respond(q, 401, "Token is required", <<>>)
          ELSE IF uid = "null"
            THEN Respond([q EXCEPT !.ext = @ \cup {"verifyIdToken"}], 401,
                         IF q.hdr.token \in expired
                           THEN "Token has expired. Please login again"
                           ELSE "Authentication failed",
                         <<>>)
          ELSE PassOn([q EXCEPT !.user = uid, !.ext = @ \cup {"verifyIdToken"}])]
  /\ UNCHANGED <<chatBox, blobs, documents, analyses, history, now, uuids, bucketReady, expired, env>>

\* optionalAuth never answers: on any failure it sets req.user = null and calls next()
optionalAuth(r) ==
  /\ At(r, "optionalAuth")
  /\ LET q == req[r]
         uid == verifyIdToken(q.hdr.token)
     IN req' = [req EXCEPT ![r] =
          IF q.hdr.scheme # "Bearer" \/ q.hdr.token = ""
            THEN PassOn([q EXCEPT !.user = "null"])
            ELSE PassOn([q EXCEPT !.user = uid, !.ext = @ \cup {"verifyIdToken"}])]
  /\ UNCHANGED <<chatBox, blobs, documents, analyses, history, now, uuids, bucketReady, expired, env>>

\* the identity provider stops accepting a token: its lifetime ends or it is revoked
Expire(t) ==
  /\ t \notin expired
  /\ expired' = expired \cup {t}
  /\ UNCHANGED <<chatBox, req, blobs, documents, analyses, history, now, uuids, bucketReady, env>>

(***************************************************************************)
(* middleware/errorHandler.js: the response to an error passed to next().  *)
(***************************************************************************)
errorHandler(q, err) ==
  IF err.code = "LIMIT_FILE_SIZE"
    THEN Respond(q, 413, "File too large", <<>>)
  ELSE IF err.code = "LIMIT_UNEXPECTED_FILE"
    THEN Respond(q, 400, "Unexpected file field", <<>>)
  ELSE Respond(q, 500,
               IF env.NODE_ENV = "development" THEN err.message ELSE "Internal server error",
               <<>>)

(***************************************************************************)
(* routes/documentRoutes.js: multer({limits, fileFilter}).single()         *)
(***************************************************************************)
MulterAllowedTypes == {"application/pdf", "image/jpeg", "image/png", "image/gif"}

\* parseInt(process.env.MAX_FILE_SIZE) || 50 * 1024 * 1024
MulterFileSizeLimit == IF env.MAX_FILE_SIZE # 0 THEN env.MAX_FILE_SIZE ELSE multerDefaultLimit

\* Mutant: the filter uses validateFileUpload's list, which also has 'image/jpg'.
fileFilterWithJpg(file) == file.mimetype \in MulterAllowedTypes \cup {"image/jpg"}

fileFilter(file) == file.mimetype \in MulterAllowedTypes

multer(r) ==
  /\ At(r, "multer")
  /\ LET q == req[r] IN
     req' = [req EXCEPT ![r] =
          IF ~q.file.present THEN PassOn(q)
          ELSE IF ~fileFilter(q.file)
            THEN errorHandler(q, [code |-> "", message |-> "Only PDF and image files are allowed."])
          ELSE IF q.file.size > MulterFileSizeLimit
            THEN errorHandler(q, [code |-> "LIMIT_FILE_SIZE", message |-> "File too large"])
          ELSE PassOn([q EXCEPT !.reqFile = q.file])]
  /\ UNCHANGED <<chatBox, blobs, documents, analyses, history, now, uuids, bucketReady, expired, env>>

(***************************************************************************)
(* middleware/validation.js: validateFileUpload                            *)
(***************************************************************************)
ValidateAllowedTypes == {"application/pdf", "image/png", "image/jpeg", "image/jpg", "image/gif"}

FileTooLarge(file) == file.size > maxSize

BadFileName(file) == file.originalname = "" \/ Len(file.originalname) > MaxFileNameLen

validateFileUpload(r) ==
  /\ At(r, "validateFileUpload")
  /\ LET q == req[r] IN
     req' = [req EXCEPT ![r] =
          IF ~q.reqFile.present
            THEN Respond(q, 400, "No file uploaded", <<>>)
          ELSE IF q.reqFile.mimetype \notin ValidateAllowedTypes
            THEN Respond(q, 400, "Invalid file type. Only PDF and image files are allowed", <<>>)
          ELSE IF FileTooLarge(q.reqFile)
            THEN Respond(q, 400, "File size too large. Maximum size is 50MB", <<>>)
          ELSE IF BadFileName(q.reqFile)
            THEN Respond(q, 400, "Invalid file name", <<>>)
          ELSE PassOn(q)]
  /\ UNCHANGED <<chatBox, blobs, documents, analyses, history, now, uuids, bucketReady, expired, env>>

(***************************************************************************)
(* services/firestoreService.js over the Firestore collections.  A record  *)
(* is a function from field names to values; a collection is a function    *)
(* from document ids to records.                                           *)
(***************************************************************************)
Merge(a, b) == [k \in DOMAIN a \cup DOMAIN b |-> IF k \in DOMAIN b THEN b[k] ELSE a[k]]
Put(coll, id, rec) == [k \in DOMAIN coll \cup {id} |-> IF k = id THEN rec ELSE coll[k]]
Remove(coll, id) == [k \in DOMAIN coll \ {id} |-> coll[k]]
Null == [missing |-> TRUE]

\* serverTimestamp(): a Firestore Timestamp of the server clock
serverTimestamp == [seconds |-> now]

\* Mutant: the timestamps come first in the object literal, so supplied ones win.
saveDocumentDataSpreadLast(coll, id, data) ==
  Put(coll, id, Merge([createdAt |-> serverTimestamp, updatedAt |-> serverTimestamp], data))

\* setDoc(ref, {...data, createdAt: serverTimestamp(), updatedAt: serverTimestamp()})
saveDocumentData(coll, id, data) ==
  Put(coll, id, Merge(data, [createdAt |-> serverTimestamp, updatedAt |-> serverTimestamp]))

\* docSnap.exists() ? { id: docSnap.id, ...docSnap.data() } : null
getDocumentData(coll, id) ==
  IF id \in DOMAIN coll THEN Merge([id |-> id], coll[id]) ELSE Null

\* setDoc(analysisRef, {...analysisData, createdAt: serverTimestamp(), updatedAt: ...})
saveAnalysisData(coll, id, data) ==
  Put(coll, id, Merge(data, [createdAt |-> serverTimestamp, updatedAt |-> serverTimestamp]))

\* analysisSnap.exists() ? { id: analysisSnap.id, ...analysisSnap.data() } : null
getAnalysisData(coll, id) ==
  IF id \in DOMAIN coll THEN Merge([id |-> id], coll[id]) ELSE Null

\* updateDoc(ref, {...updateData, updatedAt: serverTimestamp()}); fails on a missing record
updateDocumentData(coll, id, data) ==
  Put(coll, id, Merge(coll[id], Merge(data, [updatedAt |-> serverTimestamp])))

\* Mutant: a soft delete, the record is kept and marked.
deleteDocumentDataSoft(coll, id) == Put(coll, id, Merge(coll[id], [status |-> "deleted"]))

\* deleteDoc(ref)
deleteDocumentData(coll, id) == Remove(coll, id)

\* deleteDoc(analysisRef)
deleteAnalysisData(coll, id) == Remove(coll, id)

\* FieldValue.arrayUnion(entry) merged into history/{uid}.documents
arrayUnion(arr, entry) ==
  IF \E i \in 1..Len(arr) : arr[i] = entry THEN arr ELSE Append(arr, entry)

\* Mutant: set() without the arrayUnion transform, so the list is replaced.
saveDocumentHistoryOverwrite(h, uid, entry) == [h EXCEPT ![uid] = <<entry>>]

\* docRef.set({documents: FieldValue.arrayUnion(documentData)}, {merge: true})
saveDocumentHistory(h, uid, entry) == [h EXCEPT ![uid] = arrayUnion(@, entry)]

(***************************************************************************)
(* Firestore queries as getUserDocuments and getUserAnalyses build them:   *)
(* where(...) equalities, one orderBy(field, direction), an optional       *)
(* startAfter(snapshot) and a limit.  Firestore orders by the field and    *)
(* breaks ties by document id in the same direction, returns only records  *)
(* that have the field, and a snapshot cursor carries both.                *)
(***************************************************************************)
\* file names in alphabetical order
NameRank(name) == CASE name = "a.pdf" -> 1 [] name = "b.pdf" -> 2 [] OTHER -> 3

\* the position of a field value in Firestore's order of values
SortKey(rec, field) ==
  IF field \in {"createdAt", "updatedAt"} THEN rec[field].seconds
  ELSE IF field = "fileName" THEN NameRank(rec[field])
  ELSE rec[field]

\* where(k, '==', w[k]) for every k
Matches(rec, w) == \A k \in DOMAIN w : k \in DOMAIN rec /\ rec[k] = w[k]

\* a document snapshot as a query cursor
Snapshot(coll, id, field) == [id |-> id, key |-> SortKey(coll[id], field)]

Matching(coll, w, field) ==
  {Snapshot(coll, id, field) : id \in {i \in DOMAIN coll : Matches(coll[i], w) /\ field \in DOMAIN coll[i]}}

\* orderBy(field, order): a comes before b
Precedes(a, b, order) ==
  IF order = "asc" THEN a.key < b.key \/ (a.key = b.key /\ a.id < b.id)
                   ELSE a.key > b.key \/ (a.key = b.key /\ a.id > b.id)

RECURSIVE Ordered(_, _)
Ordered(S, order) ==
  IF S = {} THEN <<>>
  ELSE LET first == CHOOSE a \in S : \A b \in S \ {a} : Precedes(a, b, order)
       IN <<first>> \o Ordered(S \ {first}, order)

\* Mutant: the cursor is inclusive, as with startAt(lastVisible).
startAt(S, cursor, order) == {a \in S : a = cursor \/ Precedes(cursor, a, order)}

\* startAfter(lastVisible)
startAfter(S, cursor, order) == {a \in S : Precedes(cursor, a, order)}

\* limit(n)
limit(seq, n) == SubSeq(seq, 1, IF n < Len(seq) THEN n ELSE Len(seq))

\* getDocs(query(ref, where..., orderBy(field, order), [startAfter(cursor)], limit(n)))
getDocs(coll, w, field, order, cursor, n) ==
  LET all == Matching(coll, w, field)
  IN limit(Ordered(IF cursor = NoCursor THEN all ELSE startAfter(all, cursor, order), order), n)

\* offsetSnapshot.docs[offsetSnapshot.docs.length - 1], undefined for an empty snapshot
lastVisible(docs) == IF docs = <<>> THEN NoCursor ELSE docs[Len(docs)]

\* querySnapshot.forEach(doc => list.push({ id: doc.id, ...doc.data() }))
Listed(coll, docs) == [i \in 1..Len(docs) |-> Merge([id |-> docs[i].id], coll[docs[i].id])]

(***************************************************************************)
(* services/googleCloud.js                                                 *)
(***************************************************************************)
\* Mutant: the name has no random part, only the clock value and the file name.
uniqueFileNameFromClock(fileName, n) == [dir |-> "", ts |-> now, uuid |-> 0, name |-> fileName]

\* `${Date.now()}_${uuidv4()}_${fileName}` with the uuid drawn as number n
uniqueFileName(fileName, n) == [dir |-> "", ts |-> now, uuid |-> n, name |-> fileName]

\* gcsUri.replace(`gs://${bucket}/`, '')
ObjectOf(uri) == uri.object

(***************************************************************************)
(* controllers/documentController.js: uploadDocument                       *)
(***************************************************************************)
OcrOutcomes == {"text", "empty", "error"}

\* error.message || fallback, sent by a controller's own catch block
Caught(q, msg) == Respond(q, 500, msg, <<>>)

\* const documentId = uuidv4(); uploadToGCS(...) up to stream.end(fileBuffer)
uploadDocument(r) ==
  /\ InCtl(r, "uploadDocument", "")
  /\ LET q == req[r] IN
       IF ~q.reqFile.present
         THEN /\ req' = [req EXCEPT ![r] = Respond(q, 400, "No file uploaded", <<>>)]
              /\ UNCHANGED uuids
       ELSE IF ~bucketReady
         THEN /\ req' = [req EXCEPT ![r] =
                   Caught([q EXCEPT !.loc.documentId = uuidv4(1)],
                          "Google Cloud Storage not initialized")]
              /\ uuids' = uuids + 1
       ELSE /\ req' = [req EXCEPT ![r] =
                   [q EXCEPT !.loc.documentId = uuidv4(1),
                             !.loc.object = uniqueFileName(q.reqFile.originalname, uuidv4(2)),
                             !.ext = @ \cup {"gcs.write"},
                             !.pc = "uploadToGCS"]]
            /\ uuids' = uuids + 2
  /\ UNCHANGED <<chatBox, blobs, documents, analyses, history, now, bucketReady, expired, env>>

\* the write stream's 'finish' or 'error' event, then ocrService.extractText is called
uploadToGCS(r) ==
  /\ InCtl(r, "uploadDocument", "uploadToGCS")
  /\ LET q == req[r] IN
     \/ /\ blobs' = blobs \cup {q.loc.object}
        /\ req' = [req EXCEPT ![r] =
             [q EXCEPT !.loc.gcsUri = GcsUri(q.loc.object),
                       !.ext = @ \cup {"ocr"},
                       !.pc = "extractText"]]
     \/ /\ req' = [req EXCEPT ![r] = Caught(q, "stream error")]
        /\ UNCHANGED blobs
  /\ UNCHANGED <<chatBox, documents, analyses, history, now, uuids, bucketReady, expired, env>>

\* documentData as assembled by uploadDocument
documentData(q) ==
  [userId |-> q.user, fileName |-> q.reqFile.originalname, gcsUri |-> q.loc.gcsUri,
   extractedText |-> q.loc.text, mimeType |-> q.reqFile.mimetype, fileSize |-> q.reqFile.size]

\* ocrService.extractText returns or throws, then saveDocumentData is called
uploadExtractText(r) ==
  /\ InCtl(r, "uploadDocument", "extractText")
  /\ \E outcome \in OcrOutcomes :
       LET q == req[r] IN
       req' = [req EXCEPT ![r] =
         IF outcome = "text"
           THEN [q EXCEPT !.loc.text = "text", !.loc.ocr = outcome,
                          !.ext = @ \cup {"db.saveDocument"}, !.pc = "saveDocumentData"]
         ELSE IF outcome = "empty"
           THEN Caught([q EXCEPT !.loc.ocr = outcome],
                       "Document processing failed: No text extracted from document")
         ELSE Caught([q EXCEPT !.loc.ocr = outcome], "Document processing failed: upstream")]
  /\ UNCHANGED <<chatBox, blobs, documents, analyses, history, now, uuids, bucketReady, expired, env>>

\* saveDocumentData resolves or rejects, then saveDocumentHistory is called
uploadSaveDocumentData(r) ==
  /\ InCtl(r, "uploadDocument", "saveDocumentData")
  /\ LET q == req[r] IN
     \/ /\ documents' = saveDocumentData(documents, q.loc.documentId, documentData(q))
        /\ req' = [req EXCEPT ![r] =
             [q EXCEPT !.ext = @ \cup {"db.saveHistory"}, !.pc = "saveDocumentHistory"]]
     \/ /\ req' = [req EXCEPT ![r] = Caught(q, "firestore error")]
        /\ UNCHANGED documents
  /\ UNCHANGED <<chatBox, blobs, analyses, history, now, uuids, bucketReady, expired, env>>

\* saveDocumentHistory resolves or rejects, then the 200 response is sent
uploadSaveDocumentHistory(r) ==
  /\ InCtl(r, "uploadDocument", "saveDocumentHistory")
  /\ LET q == req[r] IN
     \/ /\ history' = saveDocumentHistory(history, q.user, documentData(q))
        /\ req' = [req EXCEPT ![r] =
             Respond(q, 200, "", [documentId |-> q.loc.documentId,
                                  fileName |-> q.reqFile.originalname,
                                  extractedText |-> q.loc.text])]
     \/ /\ req' = [req EXCEPT ![r] = Caught(q, "firestore error")]
        /\ UNCHANGED history
  /\ UNCHANGED <<chatBox, blobs, documents, analyses, now, uuids, bucketReady, expired, env>>

(***************************************************************************)
(* Ingestion alone: single upload requests with every kind of file, under  *)
(* every setting of MAX_FILE_SIZE and of the bucket handle.                *)
(***************************************************************************)
Mimes == {"application/pdf", "image/png", "image/jpg", "text/plain"}
Sizes == {1, 1024 * 1024 + 1, 50 * 1024 * 1024, 50 * 1024 * 1024 + 1}
Names == {"a.pdf", LongName}
Files == {NoFile} \cup [present : {TRUE}, mimetype : Mimes, size : Sizes, originalname : Names]
GoodFiles == [present : {TRUE}, mimetype : {"application/pdf"}, size : {1}, originalname : {"a.pdf", "b.pdf"}]
Bearer(t) == [scheme |-> "Bearer", token |-> t]
GoodHeaders == {Bearer("t1"), Bearer("t2")}

InitIngest ==
  /\ req = [r \in Req |-> IdleReq]
  /\ blobs = {}
  /\ documents = <<>>
  /\ analyses = <<>>
  /\ history = [u \in Users |-> <<>>]
  /\ now = 0
  /\ uuids = 0
  /\ bucketReady \in BOOLEAN
  /\ expired = {}
  /\ env \in [NODE_ENV : {"production"}, MAX_FILE_SIZE : {0, 1024 * 1024, 100 * 1024 * 1024}]
  /\ chatBox = NoChatBox

UploadSteps(r) ==
  \/ authMiddleware(r)
  \/ multer(r)
  \/ validateFileUpload(r)
  \/ uploadDocument(r)
  \/ uploadToGCS(r)
  \/ uploadExtractText(r)
  \/ uploadSaveDocumentData(r)
  \/ uploadSaveDocumentHistory(r)

NextIngest ==
  \/ \E f \in Files :
       Arrive(1, "POST /api/documents/upload", Bearer("t1"), f, NoBody, 0, NoQuery)
  \/ UploadSteps(1)

SpecIngest == InitIngest /\ [][NextIngest]_vars

(***************************************************************************)
(* middleware/validation.js: validateAnalysisRequest                       *)
(***************************************************************************)
\* Mutant: validation failures answered 422 instead of 400.
handleValidationErrors422(q, ok) ==
  IF ok THEN PassOn(q) ELSE Respond(q, 422, "Validation failed", <<>>)

\* errors.isEmpty() ? next() : res.status(400).json({error: 'Validation failed', ...})
handleValidationErrors(q, ok) ==
  IF ok THEN PassOn(q) ELSE Respond(q, 400, "Validation failed", <<>>)

\* body('gcsUri').optional().isString().matches(/^gs:\/\//)
GcsUriRuleOk(body) == body.gcsUri.scheme = "" \/ body.gcsUri.scheme = "gs"

\* body('question').optional().trim().isLength({min: 1, max: 1000})
QuestionRuleOk(body) == Len(body.question) <= 1000

\* the custom rule: !req.body.gcsUri && !req.body.documentId throws
EitherRuleOk(body) == ~(body.gcsUri.scheme = "" /\ body.documentId = 0)

validateAnalysisRequest(r) ==
  /\ At(r, "validateAnalysisRequest")
  /\ LET q == req[r] IN
     req' = [req EXCEPT ![r] =
          handleValidationErrors(q, GcsUriRuleOk(q.body) /\ QuestionRuleOk(q.body)
                                      /\ EitherRuleOk(q.body))]
  /\ UNCHANGED <<chatBox, blobs, documents, analyses, history, now, uuids, bucketReady, expired, env>>

(***************************************************************************)
(* The 404 / 403 sequence every controller runs on the record it loaded:   *)
(*   if (!record) return 404;  if (record.userId !== user.uid) return 403   *)
(* With req.user null or undefined the comparison throws a TypeError,      *)
(* which the controller's catch block answers with 500.                    *)
(***************************************************************************)
\* Mutant: the owner comparison is missing.
OwnershipUnchecked(q, rec, notFound, failed, granted) ==
  IF rec = Null THEN Respond(q, 404, notFound, <<>>) ELSE granted

OwnershipChecked(q, rec, notFound, failed, granted) ==
  IF rec = Null
    THEN Respond(q, 404, notFound, <<>>)
  ELSE IF q.user \in {"null", "unset"}
    THEN Caught(q, failed)
  ELSE IF rec.userId # q.user
    THEN Respond(q, 403, "Access denied", <<>>)
  ELSE granted

(***************************************************************************)
(* services/geminiService.js                                               *)
(***************************************************************************)
GeminiOutcomes == {"text", "empty", "SAFETY", "QUOTA_EXCEEDED", "INVALID_API_KEY", "other"}

\* the message of the error analyzeWithGemini throws for a failed call
analyzeWithGeminiError(outcome) ==
  CASE outcome = "SAFETY" ->
         "Content was flagged by safety filters. Please try rephrasing your request."
    [] outcome = "QUOTA_EXCEEDED" -> "API quota exceeded. Please try again later."
    [] outcome = "INVALID_API_KEY" ->
         "Invalid API key. Please check your Gemini API configuration."
    [] outcome = "empty" -> "Analysis failed: No response generated from Gemini"
    [] OTHER -> "Analysis failed: upstream"

\* Mutant: the quota branch is missing, so the failure is reported in the generic form.
chatWithGeminiErrorNoQuota(outcome) ==
  CASE outcome = "SAFETY" ->
         "Content was flagged by safety filters. Please try rephrasing your question."
    [] outcome = "INVALID_API_KEY" ->
         "Invalid API key. Please check your Gemini API configuration."
    [] outcome = "empty" -> "Chat failed: No response generated from Gemini"
    [] OTHER -> "Chat failed: upstream"

\* the message of the error chatWithGemini throws for a failed call
chatWithGeminiError(outcome) ==
  CASE outcome = "SAFETY" ->
         "Content was flagged by safety filters. Please try rephrasing your question."
    [] outcome = "QUOTA_EXCEEDED" -> "API quota exceeded. Please try again later."
    [] outcome = "INVALID_API_KEY" ->
         "Invalid API key. Please check your Gemini API configuration."
    [] outcome = "empty" -> "Chat failed: No response generated from Gemini"
    [] OTHER -> "Chat failed: upstream"

\* Mutant: each turn is pushed answer first.
RECURSIVE pushHistoryAnswerFirst(_, _)
pushHistoryAnswerFirst(contents, conversationHistory) ==
  IF conversationHistory = <<>> THEN contents
  ELSE pushHistoryAnswerFirst(
         contents \o <<[role |-> "model", text |-> Head(conversationHistory).answer],
                       [role |-> "user", text |-> Head(conversationHistory).question]>>,
         Tail(conversationHistory))

\* conversationHistory.forEach(item => contents.push(user question), contents.push(model answer))
RECURSIVE pushHistory(_, _)
pushHistory(contents, conversationHistory) ==
  IF conversationHistory = <<>> THEN contents
  ELSE pushHistory(contents \o <<[role |-> "user", text |-> Head(conversationHistory).question],
                                 [role |-> "model", text |-> Head(conversationHistory).answer]>>,
                   Tail(conversationHistory))

\* the contents chatWithGemini(prompt, conversationHistory) hands to model.generateContent
chatContents(prompt, conversationHistory) ==
  Append(pushHistory(<<>>, conversationHistory), [role |-> "user", text |-> prompt])

(***************************************************************************)
(* controllers/analyzeController.js: analyzeDocument                       *)
(***************************************************************************)
\* what the OCR service can answer for a uri: text only for an object it can read
OcrOutcomesFor(uri) == IF ObjectOf(uri) \in blobs THEN OcrOutcomes ELSE {"error"}

\* lines 44-52: call the OCR service when there is no text yet and a gcsUri was given
BeforeExtract(q) == q.loc.text = "" /\ q.body.gcsUri.scheme # ""

\* Mutant: the empty-text check of lines 54-59 is missing.
AfterExtractUnchecked(q) == [q EXCEPT !.ext = @ \cup {"gemini"}, !.pc = "analyzeWithGemini"]

\* lines 54-67: without text answer 400, else assemble the prompt and call Gemini
AfterExtract(q) ==
  IF q.loc.text = ""
    THEN Respond(q, 400, "No text content available for analysis", <<>>)
    ELSE [q EXCEPT !.ext = @ \cup {"gemini"}, !.pc = "analyzeWithGemini"]

\* lines 44-67 from the point where the document, if any, has been read
AfterDocument(q) ==
  IF BeforeExtract(q)
    THEN [q EXCEPT !.ext = @ \cup {"ocr"}, !.pc = "extractText"]
    ELSE AfterExtract(q)

analyzeDocument(r) ==
  /\ InCtl(r, "analyzeDocument", "")
  /\ LET q == req[r] IN
     req' = [req EXCEPT ![r] =
          IF q.body.gcsUri.scheme = "" /\ q.body.documentId = 0
            THEN Respond(q, 400, "Document ID or GCS URI is required", <<>>)
          ELSE IF q.body.documentId # 0
            THEN [q EXCEPT !.ext = @ \cup {"db.getDocument"}, !.pc = "getDocumentData"]
          ELSE AfterDocument(q)]
  /\ UNCHANGED <<chatBox, blobs, documents, analyses, history, now, uuids, bucketReady, expired, env>>

\* getDocumentData(documentId) resolves or rejects; the ownership check follows
analyzeGetDocumentData(r) ==
  /\ InCtl(r, "analyzeDocument", "getDocumentData")
  /\ LET q == req[r]
         doc == getDocumentData(documents, q.body.documentId)
     IN
     \/ req' = [req EXCEPT ![r] =
          OwnershipChecked(q, doc, "Document not found", "Cannot read properties of null",
            AfterDocument([q EXCEPT !.loc.text = doc.extractedText, !.loc.gcsUri = doc.gcsUri]))]
     \/ req' = [req EXCEPT ![r] = Caught(q, "firestore error")]
  /\ UNCHANGED <<chatBox, blobs, documents, analyses, history, now, uuids, bucketReady, expired, env>>

\* ocrService.extractText(gcsUri) inside the inner try/catch: a failure is only logged
analyzeExtractText(r) ==
  /\ InCtl(r, "analyzeDocument", "extractText")
  /\ \E outcome \in OcrOutcomesFor(req[r].body.gcsUri) :
       LET q == req[r] IN
       req' = [req EXCEPT ![r] =
         AfterExtract([q EXCEPT !.loc.text = IF outcome = "text" THEN "text" ELSE "",
                                !.loc.ocr = outcome])]
  /\ UNCHANGED <<chatBox, blobs, documents, analyses, history, now, uuids, bucketReady, expired, env>>

\* analysisData as assembled by analyzeDocument, with the uuid drawn as number n
analysisData(q, n) ==
  [id |-> n, documentId |-> q.body.documentId,
   gcsUri |-> IF q.body.gcsUri.scheme # "" THEN q.body.gcsUri ELSE q.loc.gcsUri,
   question |-> q.body.question, analysis |-> q.loc.answer, summary |-> q.loc.answer,
   extractedLength |-> Len(q.loc.text), userId |-> q.user,
   createdAt |-> [iso |-> now], status |-> "completed"]

\* analyzeWithGemini(prompt) resolves or throws; then uuidv4() and saveAnalysisData
analyzeWithGemini(r) ==
  /\ InCtl(r, "analyzeDocument", "analyzeWithGemini")
  /\ \E outcome \in GeminiOutcomes :
       LET q == req[r] IN
       IF outcome = "text"
         THEN /\ req' = [req EXCEPT ![r] =
                   [q EXCEPT !.loc.answer = "answer", !.loc.gemini = outcome,
                             !.loc.analysisId = uuidv4(1),
                             !.ext = @ \cup {"db.saveAnalysis"}, !.pc = "saveAnalysisData"]]
              /\ uuids' = uuids + 1
         ELSE /\ req' = [req EXCEPT ![r] =
                   Caught([q EXCEPT !.loc.gemini = outcome], analyzeWithGeminiError(outcome))]
              /\ UNCHANGED uuids
  /\ UNCHANGED <<chatBox, blobs, documents, analyses, history, now, bucketReady, expired, env>>

\* saveAnalysisData resolves or rejects, then the 200 response is sent
analyzeSaveAnalysisData(r) ==
  /\ InCtl(r, "analyzeDocument", "saveAnalysisData")
  /\ LET q == req[r]
         data == analysisData(q, q.loc.analysisId)
     IN
     \/ /\ analyses' = saveAnalysisData(analyses, q.loc.analysisId, data)
        /\ req' = [req EXCEPT ![r] =
             Respond(q, 200, "", [analysisId |-> q.loc.analysisId, summary |-> q.loc.answer])]
     \/ /\ req' = [req EXCEPT ![r] = Caught(q, "firestore error")]
        /\ UNCHANGED analyses
  /\ UNCHANGED <<chatBox, blobs, documents, history, now, uuids, bucketReady, expired, env>>

AnalyzeSteps(r) ==
  \/ validateAnalysisRequest(r)
  \/ analyzeDocument(r)
  \/ analyzeGetDocumentData(r)
  \/ analyzeExtractText(r)
  \/ analyzeWithGemini(r)
  \/ analyzeSaveAnalysisData(r)

(***************************************************************************)
(* middleware/validation.js: validateChatRequest                           *)
(***************************************************************************)
\* body('message').notEmpty().trim().isLength({min: 1, max: 1000})
MessageRuleOk(body) == body.message # "" /\ Len(body.message) <= 1000

validateChatRequest(r) ==
  /\ At(r, "validateChatRequest")
  /\ LET q == req[r] IN
     req' = [req EXCEPT ![r] =
          handleValidationErrors(q, MessageRuleOk(q.body) /\ GcsUriRuleOk(q.body)
                                      /\ EitherRuleOk(q.body))]
  /\ UNCHANGED <<chatBox, blobs, documents, analyses, history, now, uuids, bucketReady, expired, env>>

(***************************************************************************)
(* controllers/analyzeController.js: chatWithDocument                      *)
(***************************************************************************)
\* Mutant: each turn is written answer first.
RECURSIVE forEachTurnAnswerFirst(_, _, _)
forEachTurnAnswerFirst(context, conversationHistory, index) ==
  IF index > Len(conversationHistory) THEN context
  ELSE forEachTurnAnswerFirst(
         context \o <<[label |-> "A", index |-> index, text |-> conversationHistory[index].answer],
                      [label |-> "Q", index |-> index, text |-> conversationHistory[index].question]>>,
         conversationHistory, index + 1)

\* conversationHistory.forEach((item, index) => context += `Q${index+1}: ...\nA${index+1}: ...\n\n`)
RECURSIVE forEachTurn(_, _, _)
forEachTurn(context, conversationHistory, index) ==
  IF index > Len(conversationHistory) THEN context
  ELSE forEachTurn(
         context \o <<[label |-> "Q", index |-> index, text |-> conversationHistory[index].question],
                      [label |-> "A", index |-> index, text |-> conversationHistory[index].answer]>>,
         conversationHistory, index + 1)

\* lines 167-177: the prompt as the sequence of its labelled parts
conversationContext(extractedText, conversationHistory, message) ==
  LET start == <<[label |-> "Document content", index |-> 0, text |-> extractedText]>>
      turns == IF Len(conversationHistory) > 0
                 THEN forEachTurn(start \o <<[label |-> "Previous conversation", index |-> 0,
                                              text |-> ""]>>,
                                  conversationHistory, 1)
                 ELSE start
  IN Append(turns, [label |-> "Current question", index |-> 0, text |-> message])

\* Mutant: the empty-text check of lines 160-165 is missing.
ChatAfterExtractUnchecked(q) ==
  [q EXCEPT !.loc.prompt = conversationContext(q.loc.text, q.body.conversationHistory,
                                               q.body.message),
            !.ext = @ \cup {"gemini"}, !.pc = "chatWithGemini"]

\* lines 160-180: without text answer 400, else assemble the prompt and call Gemini
ChatAfterExtract(q) ==
  IF q.loc.text = ""
    THEN Respond(q, 400, "No text content available for chat", <<>>)
    ELSE [q EXCEPT !.loc.prompt = conversationContext(q.loc.text, q.body.conversationHistory,
                                                       q.body.message),
                   !.ext = @ \cup {"gemini"}, !.pc = "chatWithGemini"]

\* lines 150-180 from the point where the document, if any, has been read
ChatAfterDocument(q) ==
  IF BeforeExtract(q)
    THEN [q EXCEPT !.ext = @ \cup {"ocr"}, !.pc = "extractText"]
    ELSE ChatAfterExtract(q)

chatWithDocument(r) ==
  /\ InCtl(r, "chatWithDocument", "")
  /\ LET q == req[r] IN
     req' = [req EXCEPT ![r] =
          IF q.body.message = ""
            THEN Respond(q, 400, "Message is required", <<>>)
          ELSE IF q.body.gcsUri.scheme = "" /\ q.body.documentId = 0
            THEN Respond(q, 400, "Document ID or GCS URI is required", <<>>)
          ELSE IF q.body.documentId # 0
            THEN [q EXCEPT !.ext = @ \cup {"db.getDocument"}, !.pc = "getDocumentData"]
          ELSE ChatAfterDocument(q)]
  /\ UNCHANGED <<chatBox, blobs, documents, analyses, history, now, uuids, bucketReady, expired, env>>

\* getDocumentData(documentId) resolves or rejects; the ownership check follows
chatGetDocumentData(r) ==
  /\ InCtl(r, "chatWithDocument", "getDocumentData")
  /\ LET q == req[r]
         doc == getDocumentData(documents, q.body.documentId)
     IN
     \/ req' = [req EXCEPT ![r] =
          OwnershipChecked(q, doc, "Document not found", "Cannot read properties of null",
            ChatAfterDocument([q EXCEPT !.loc.text = doc.extractedText]))]
     \/ req' = [req EXCEPT ![r] = Caught(q, "firestore error")]
  /\ UNCHANGED <<chatBox, blobs, documents, analyses, history, now, uuids, bucketReady, expired, env>>

\* ocrService.extractText(gcsUri) inside the inner try/catch: a failure is only logged
chatExtractText(r) ==
  /\ InCtl(r, "chatWithDocument", "extractText")
  /\ \E outcome \in OcrOutcomesFor(req[r].body.gcsUri) :
       LET q == req[r] IN
       req' = [req EXCEPT ![r] =
         ChatAfterExtract([q EXCEPT !.loc.text = IF outcome = "text" THEN "text" ELSE "",
                                    !.loc.ocr = outcome])]
  /\ UNCHANGED <<chatBox, blobs, documents, analyses, history, now, uuids, bucketReady, expired, env>>

\* chatWithGemini(conversationContext), called with the prompt alone, resolves or throws
chatWithGemini(r) ==
  /\ InCtl(r, "chatWithDocument", "chatWithGemini")
  /\ \E outcome \in GeminiOutcomes :
       LET q == [req[r] EXCEPT !.loc.contents = chatContents(req[r].loc.prompt, <<>>),
                               !.loc.gemini = outcome]
       IN req' = [req EXCEPT ![r] =
            IF outcome = "text"
              THEN Respond([q EXCEPT !.loc.answer = "answer"], 200, "", [response |-> "answer"])
              ELSE Caught(q, chatWithGeminiError(outcome))]
  /\ UNCHANGED <<chatBox, blobs, documents, analyses, history, now, uuids, bucketReady, expired, env>>

ChatSteps(r) ==
  \/ validateChatRequest(r)
  \/ chatWithDocument(r)
  \/ chatGetDocumentData(r)
  \/ chatExtractText(r)
  \/ chatWithGemini(r)

(***************************************************************************)
(* middleware/validation.js: validateAnalysisId                            *)
(***************************************************************************)
\* param('id').notEmpty().isLength({min: 1, max: 100}); ids are numbered, 0 is ''
IdRuleOk(id) == id # 0

validateAnalysisId(r) ==
  /\ At(r, "validateAnalysisId")
  /\ req' = [req EXCEPT ![r] = handleValidationErrors(req[r], IdRuleOk(req[r].id))]
  /\ UNCHANGED <<chatBox, blobs, documents, analyses, history, now, uuids, bucketReady, expired, env>>

(***************************************************************************)
(* controllers/analyzeController.js: getAnalysis, deleteAnalysis           *)
(***************************************************************************)
getAnalysis(r) ==
  /\ InCtl(r, "getAnalysis", "")
  /\ req' = [req EXCEPT ![r] =
       [@ EXCEPT !.ext = @ \cup {"db.getAnalysis"}, !.pc = "getAnalysisData"]]
  /\ UNCHANGED <<chatBox, blobs, documents, analyses, history, now, uuids, bucketReady, expired, env>>

\* getAnalysisData(id) resolves or rejects; then 404, 403 or the record
getAnalysisLoaded(r) ==
  /\ InCtl(r, "getAnalysis", "getAnalysisData")
  /\ LET q == req[r]
         analysis == getAnalysisData(analyses, q.id)
     IN
     \/ req' = [req EXCEPT ![r] =
          OwnershipChecked(q, analysis, "Analysis not found", "Failed to fetch analysis",
                           Respond(q, 200, "", [analysis |-> analysis]))]
     \/ req' = [req EXCEPT ![r] = Caught(q, "Failed to fetch analysis")]
  /\ UNCHANGED <<chatBox, blobs, documents, analyses, history, now, uuids, bucketReady, expired, env>>

deleteAnalysis(r) ==
  /\ InCtl(r, "deleteAnalysis", "")
  /\ req' = [req EXCEPT ![r] =
       [@ EXCEPT !.ext = @ \cup {"db.getAnalysis"}, !.pc = "getAnalysisData"]]
  /\ UNCHANGED <<chatBox, blobs, documents, analyses, history, now, uuids, bucketReady, expired, env>>

\* getAnalysisData(id) resolves or rejects; then 404, 403 or deleteAnalysisData is called
deleteAnalysisLoaded(r) ==
  /\ InCtl(r, "deleteAnalysis", "getAnalysisData")
  /\ LET q == req[r]
         analysis == getAnalysisData(analyses, q.id)
     IN
     \/ req' = [req EXCEPT ![r] =
          OwnershipChecked(q, analysis, "Analysis not found", "Failed to delete analysis",
                           [q EXCEPT !.ext = @ \cup {"db.deleteAnalysis"},
                                     !.pc = "deleteAnalysisData"])]
     \/ req' = [req EXCEPT ![r] = Caught(q, "Failed to delete analysis")]
  /\ UNCHANGED <<chatBox, blobs, documents, analyses, history, now, uuids, bucketReady, expired, env>>

\* deleteAnalysisData(id) resolves or rejects, then the 200 response is sent
deleteAnalysisDeleted(r) ==
  /\ InCtl(r, "deleteAnalysis", "deleteAnalysisData")
  /\ LET q == req[r] IN
     \/ /\ analyses' = deleteAnalysisData(analyses, q.id)
        /\ req' = [req EXCEPT ![r] =
             Respond(q, 200, "", [message |-> "Analysis deleted successfully"])]
     \/ /\ req' = [req EXCEPT ![r] = Caught(q, "Failed to delete analysis")]
        /\ UNCHANGED analyses
  /\ UNCHANGED <<chatBox, blobs, documents, history, now, uuids, bucketReady, expired, env>>

(***************************************************************************)
(* middleware/validation.js: validatePagination.  req.query holds the      *)
(* values after the controllers' defaults (page 1, limit 10, createdAt,    *)
(* desc) and parseInt.                                                     *)
(***************************************************************************)
PaginationRuleOk(query) ==
  /\ query.page >= 1
  /\ query.limit >= 1 /\ query.limit <= 100
  /\ query.sortBy \in {"createdAt", "updatedAt", "fileName", "size"}
  /\ query.order \in {"asc", "desc"}

validatePagination(r) ==
  /\ At(r, "validatePagination")
  /\ req' = [req EXCEPT ![r] = handleValidationErrors(req[r], PaginationRuleOk(req[r].query))]
  /\ UNCHANGED <<chatBox, blobs, documents, analyses, history, now, uuids, bucketReady, expired, env>>

(***************************************************************************)
(* controllers/analyzeController.js: getAnalysisHistory, with              *)
(* firestoreService.getUserAnalyses inlined at its two awaits              *)
(***************************************************************************)
\* Mutant: the continuation query filters by nothing, as it already drops documentId.
AnalysesWhereAnyUser(uid, documentId, cursor) ==
  IF cursor # NoCursor THEN <<>>
  ELSE IF documentId # 0 THEN [userId |-> uid, documentId |-> documentId]
  ELSE [userId |-> uid]

\* the where clauses of the query getUserAnalyses finally runs: the continuation query
\* (lastVisible found) filters by userId alone, the first-page query also by documentId
AnalysesWhere(uid, documentId, cursor) ==
  IF cursor # NoCursor THEN [userId |-> uid]
  ELSE IF documentId # 0 THEN [userId |-> uid, documentId |-> documentId]
  ELSE [userId |-> uid]

\* user.uid with req.user null throws; limit(n) rejects n < 1; page > 1 runs offsetQuery first
getAnalysisHistory(r) ==
  /\ InCtl(r, "getAnalysisHistory", "")
  /\ LET q == req[r] IN
     req' = [req EXCEPT ![r] =
          IF q.user \in {"null", "unset"} \/ q.query.limit < 1
            THEN Caught(q, "Failed to fetch analysis history")
          ELSE [q EXCEPT !.ext = @ \cup {"db.listAnalyses"},
                         !.pc = IF q.query.page > 1 THEN "offsetQuery" ELSE "query"]]
  /\ UNCHANGED <<chatBox, blobs, documents, analyses, history, now, uuids, bucketReady, expired, env>>

\* getDocs(offsetQuery) resolves or rejects
getUserAnalysesOffset(r) ==
  /\ InCtl(r, "getAnalysisHistory", "offsetQuery")
  /\ LET q == req[r]
         offset == (q.query.page - 1) * q.query.limit
         docs == getDocs(analyses, [userId |-> q.user], "createdAt", "desc", NoCursor, offset)
     IN
     \/ req' = [req EXCEPT ![r] = [q EXCEPT !.loc.lastVisible = lastVisible(docs), !.pc = "query"]]
     \/ req' = [req EXCEPT ![r] = Caught(q, "Failed to fetch analysis history")]
  /\ UNCHANGED <<chatBox, blobs, documents, analyses, history, now, uuids, bucketReady, expired, env>>

\* getDocs(q) resolves or rejects, then the 200 response is sent
getUserAnalysesQuery(r) ==
  /\ InCtl(r, "getAnalysisHistory", "query")
  /\ LET q == req[r]
         w == AnalysesWhere(q.user, q.query.documentId, q.loc.lastVisible)
         docs == getDocs(analyses, w, "createdAt", "desc", q.loc.lastVisible, q.query.limit)
     IN
     \/ req' = [req EXCEPT ![r] =
          Respond(q, 200, "", [analyses |-> Listed(analyses, docs), page |-> q.query.page,
                               limit |-> q.query.limit, total |-> Len(docs)])]
     \/ req' = [req EXCEPT ![r] = Caught(q, "Failed to fetch analysis history")]
  /\ UNCHANGED <<chatBox, blobs, documents, analyses, history, now, uuids, bucketReady, expired, env>>

(***************************************************************************)
(* controllers/documentController.js: getDocuments, with                   *)
(* firestoreService.getUserDocuments inlined at its two awaits             *)
(***************************************************************************)
getDocuments(r) ==
  /\ InCtl(r, "getDocuments", "")
  /\ LET q == req[r] IN
     req' = [req EXCEPT ![r] =
          IF q.user \in {"null", "unset"} \/ q.query.limit < 1
            THEN Caught(q, "Failed to fetch documents")
          ELSE [q EXCEPT !.ext = @ \cup {"db.listDocuments"},
                         !.pc = IF q.query.page > 1 THEN "offsetQuery" ELSE "query"]]
  /\ UNCHANGED <<chatBox, blobs, documents, analyses, history, now, uuids, bucketReady, expired, env>>

\* getDocs(offsetQuery) resolves or rejects
getUserDocumentsOffset(r) ==
  /\ InCtl(r, "getDocuments", "offsetQuery")
  /\ LET q == req[r]
         offset == (q.query.page - 1) * q.query.limit
         docs == getDocs(documents, [userId |-> q.user], q.query.sortBy, q.query.order,
                         NoCursor, offset)
     IN
     \/ req' = [req EXCEPT ![r] = [q EXCEPT !.loc.lastVisible = lastVisible(docs), !.pc = "query"]]
     \/ req' = [req EXCEPT ![r] = Caught(q, "Failed to fetch documents")]
  /\ UNCHANGED <<chatBox, blobs, documents, analyses, history, now, uuids, bucketReady, expired, env>>

\* getDocs(q) resolves or rejects, then the 200 response is sent
getUserDocumentsQuery(r) ==
  /\ InCtl(r, "getDocuments", "query")
  /\ LET q == req[r]
         docs == getDocs(documents, [userId |-> q.user], q.query.sortBy, q.query.order,
                         q.loc.lastVisible, q.query.limit)
     IN
     \/ req' = [req EXCEPT ![r] =
          Respond(q, 200, "", [documents |-> Listed(documents, docs), page |-> q.query.page,
                               limit |-> q.query.limit, total |-> Len(docs)])]
     \/ req' = [req EXCEPT ![r] = Caught(q, "Failed to fetch documents")]
  /\ UNCHANGED <<chatBox, blobs, documents, analyses, history, now, uuids, bucketReady, expired, env>>

(***************************************************************************)
(* controllers/documentController.js: getDocument, deleteDocument,         *)
(* downloadDocument                                                        *)
(***************************************************************************)
getDocument(r) ==
  /\ InCtl(r, "getDocument", "")
  /\ req' = [req EXCEPT ![r] =
       [@ EXCEPT !.ext = @ \cup {"db.getDocument"}, !.pc = "getDocumentData"]]
  /\ UNCHANGED <<chatBox, blobs, documents, analyses, history, now, uuids, bucketReady, expired, env>>

getDocumentLoaded(r) ==
  /\ InCtl(r, "getDocument", "getDocumentData")
  /\ LET q == req[r]
         document == getDocumentData(documents, q.id)
     IN
     \/ req' = [req EXCEPT ![r] =
          OwnershipChecked(q, document, "Document not found", "Failed to fetch document",
                           Respond(q, 200, "", [document |-> document]))]
     \/ req' = [req EXCEPT ![r] = Caught(q, "Failed to fetch document")]
  /\ UNCHANGED <<chatBox, blobs, documents, analyses, history, now, uuids, bucketReady, expired, env>>

deleteDocument(r) ==
  /\ InCtl(r, "deleteDocument", "")
  /\ req' = [req EXCEPT ![r] =
       [@ EXCEPT !.ext = @ \cup {"db.getDocument"}, !.pc = "getDocumentData"]]
  /\ UNCHANGED <<chatBox, blobs, documents, analyses, history, now, uuids, bucketReady, expired, env>>

\* getDocumentData(id) resolves or rejects; then 404, 403 or deleteFromGCS(document.gcsUri),
\* which throws at once when the bucket handle is not set
deleteDocumentLoaded(r) ==
  /\ InCtl(r, "deleteDocument", "getDocumentData")
  /\ LET q == req[r]
         document == getDocumentData(documents, q.id)
     IN
     \/ req' = [req EXCEPT ![r] =
          OwnershipChecked(q, document, "Document not found", "Failed to delete document",
                           IF ~bucketReady
                             THEN Caught(q, "Failed to delete document")
                             ELSE [q EXCEPT !.loc.gcsUri = document.gcsUri,
                                            !.ext = @ \cup {"gcs.delete"},
                                            !.pc = "deleteFromGCS"])]
     \/ req' = [req EXCEPT ![r] = Caught(q, "Failed to delete document")]
  /\ UNCHANGED <<chatBox, blobs, documents, analyses, history, now, uuids, bucketReady, expired, env>>

\* file.delete() resolves (the object existed) or rejects; then deleteDocumentData is called
deleteFromGCS(r) ==
  /\ InCtl(r, "deleteDocument", "deleteFromGCS")
  /\ LET q == req[r] IN
     \/ /\ ObjectOf(q.loc.gcsUri) \in blobs
        /\ blobs' = blobs \ {ObjectOf(q.loc.gcsUri)}
        /\ req' = [req EXCEPT ![r] =
             [q EXCEPT !.ext = @ \cup {"db.deleteDocument"}, !.pc = "deleteDocumentData"]]
     \/ /\ req' = [req EXCEPT ![r] = Caught(q, "Failed to delete document")]
        /\ UNCHANGED blobs
  /\ UNCHANGED <<chatBox, documents, analyses, history, now, uuids, bucketReady, expired, env>>

\* Mutant: the deletion also drops the document's entry from its owner's history.
deleteDocumentDeletedPruning(r) ==
  /\ InCtl(r, "deleteDocument", "deleteDocumentData")
  /\ LET q == req[r] IN
     \/ /\ documents' = deleteDocumentData(documents, q.id)
        /\ history' = [history EXCEPT ![q.user] =
                         SelectSeq(@, LAMBDA e : e.gcsUri # q.loc.gcsUri)]
        /\ req' = [req EXCEPT ![r] =
             Respond(q, 200, "", [message |-> "Document deleted successfully"])]
     \/ /\ req' = [req EXCEPT ![r] = Caught(q, "Failed to delete document")]
        /\ UNCHANGED <<chatBox, documents, history>>
  /\ UNCHANGED <<chatBox, blobs, analyses, now, uuids, bucketReady, expired, env>>

\* deleteDocumentData(id) resolves or rejects, then the 200 response is sent
deleteDocumentDeleted(r) ==
  /\ InCtl(r, "deleteDocument", "deleteDocumentData")
  /\ LET q == req[r] IN
     \/ /\ documents' = deleteDocumentData(documents, q.id)
        /\ req' = [req EXCEPT ![r] =
             Respond(q, 200, "", [message |-> "Document deleted successfully"])]
     \/ /\ req' = [req EXCEPT ![r] = Caught(q, "Failed to delete document")]
        /\ UNCHANGED documents
  /\ UNCHANGED <<chatBox, blobs, analyses, history, now, uuids, bucketReady, expired, env>>

downloadDocument(r) ==
  /\ InCtl(r, "downloadDocument", "")
  /\ req' = [req EXCEPT ![r] =
       [@ EXCEPT !.ext = @ \cup {"db.getDocument"}, !.pc = "getDocumentData"]]
  /\ UNCHANGED <<chatBox, blobs, documents, analyses, history, now, uuids, bucketReady, expired, env>>

\* getDocumentData(id) resolves or rejects; then 404, 403 or getSignedUrl(gcsUri, 'read')
downloadDocumentLoaded(r) ==
  /\ InCtl(r, "downloadDocument", "getDocumentData")
  /\ LET q == req[r]
         document == getDocumentData(documents, q.id)
     IN
     \/ req' = [req EXCEPT ![r] =
          OwnershipChecked(q, document, "Document not found", "Failed to generate download link",
                           IF ~bucketReady
                             THEN Caught(q, "Failed to generate download link")
                             ELSE [q EXCEPT !.loc.gcsUri = document.gcsUri,
                                            !.ext = @ \cup {"gcs.sign"},
                                            !.pc = "getSignedUrl"])]
     \/ req' = [req EXCEPT ![r] = Caught(q, "Failed to generate download link")]
  /\ UNCHANGED <<chatBox, blobs, documents, analyses, history, now, uuids, bucketReady, expired, env>>

\* file.getSignedUrl({action, expires}) resolves or rejects, then the 200 response is sent
getSignedUrl(r) ==
  /\ InCtl(r, "downloadDocument", "getSignedUrl")
  /\ LET q == req[r] IN
     \/ req' = [req EXCEPT ![r] =
          Respond(q, 200, "", [downloadUrl |-> [object |-> ObjectOf(q.loc.gcsUri),
                                                action |-> "read"]])]
     \/ req' = [req EXCEPT ![r] = Caught(q, "Failed to generate download link")]
  /\ UNCHANGED <<chatBox, blobs, documents, analyses, history, now, uuids, bucketReady, expired, env>>

(***************************************************************************)
(* controllers/uploadController.js as routes/uploadRoutes.js mounts it:    *)
(* uploadFile and getSignedUrl behind optionalAuth, with no multer in the  *)
(* chain, so req.file is never set on these routes.                        *)
(***************************************************************************)
\* uploadFile = uploadDocument: 400 without req.file; req.user.uid throws for a null user
uploadFile(r) ==
  /\ InCtl(r, "uploadFile", "")
  /\ LET q == req[r] IN
     req' = [req EXCEPT ![r] =
          IF ~q.reqFile.present
            THEN Respond(q, 400, "No file uploaded", <<>>)
          ELSE IF q.user \in {"null", "unset"}
            THEN Caught(q, "Document upload and analysis failed")
          ELSE [q EXCEPT !.ext = @ \cup {"gcs.write"}, !.pc = "createWriteStream"]]
  /\ UNCHANGED <<chatBox, blobs, documents, analyses, history, now, uuids, bucketReady, expired, env>>

\* getSignedUrl (controller): 400 without gcsUri or req.user?.uid, else the storage
\* service's getSignedUrl(gcsUri, 'read'), which throws at once without a bucket handle
uploadGetSignedUrl(r) ==
  /\ InCtl(r, "uploadGetSignedUrl", "")
  /\ LET q == req[r] IN
     req' = [req EXCEPT ![r] =
          IF q.body.gcsUri = NoUri \/ q.user \in {"null", "unset"}
            THEN Respond(q, 400, "Missing gcsUri or userId", <<>>)
          ELSE IF ~bucketReady
            THEN Caught(q, "Failed to generate signed URL: Google Cloud Storage not initialized")
          ELSE [q EXCEPT !.loc.gcsUri = q.body.gcsUri, !.ext = @ \cup {"gcs.sign"},
                         !.pc = "getSignedUrl"]]
  /\ UNCHANGED <<chatBox, blobs, documents, analyses, history, now, uuids, bucketReady, expired, env>>

\* file.getSignedUrl({action, expires}) resolves or rejects, then the response is sent
uploadGetSignedUrlSigned(r) ==
  /\ InCtl(r, "uploadGetSignedUrl", "getSignedUrl")
  /\ LET q == req[r] IN
     \/ req' = [req EXCEPT ![r] =
          Respond(q, 200, "", [signedUrl |-> [object |-> ObjectOf(q.loc.gcsUri),
                                              action |-> "read"]])]
     \/ req' = [req EXCEPT ![r] = Caught(q, "Failed to generate signed URL: upstream")]
  /\ UNCHANGED <<chatBox, blobs, documents, analyses, history, now, uuids, bucketReady, expired, env>>

(***************************************************************************)
(* A populated store: the state after u1 and u2 have each uploaded one     *)
(* document (ids 1 and 3, blobs with uuids 2 and 4) and had it analysed    *)
(* (analysis ids 5 and 6).                                                 *)
(***************************************************************************)
StoredObject(n, name) == [dir |-> "", ts |-> 0, uuid |-> n, name |-> name]

StoredDocument(uid, n, name) ==
  [userId |-> uid, fileName |-> name, gcsUri |-> GcsUri(StoredObject(n, name)),
   extractedText |-> "text", mimeType |-> "application/pdf", fileSize |-> 1,
   createdAt |-> [seconds |-> 0], updatedAt |-> [seconds |-> 0]]

StoredAnalysis(uid, id, docId, n, name) ==
  [id |-> id, documentId |-> docId, gcsUri |-> GcsUri(StoredObject(n, name)),
   question |-> "", analysis |-> "answer", summary |-> "answer", extractedLength |-> 4,
   userId |-> uid, createdAt |-> [seconds |-> 0], updatedAt |-> [seconds |-> 0],
   status |-> "completed"]

HistoryEntry(doc) == [k \in DOMAIN doc \ {"createdAt", "updatedAt"} |-> doc[k]]

StoredBlobs == {StoredObject(2, "a.pdf"), StoredObject(4, "b.pdf")}

StoredDocuments ==
  Put(Put(<<>>, 1, StoredDocument("u1", 2, "a.pdf")), 3, StoredDocument("u2", 4, "b.pdf"))

StoredAnalyses ==
  Put(Put(<<>>, 5, StoredAnalysis("u1", 5, 1, 2, "a.pdf")),
      6, StoredAnalysis("u2", 6, 3, 4, "b.pdf"))

InitStored ==
  /\ req = [r \in Req |-> IdleReq]
  /\ blobs = StoredBlobs
  /\ documents = StoredDocuments
  /\ analyses = StoredAnalyses
  /\ history = [u \in Users |->
                 IF u = "u1" THEN <<HistoryEntry(StoredDocument("u1", 2, "a.pdf"))>>
                             ELSE <<HistoryEntry(StoredDocument("u2", 4, "b.pdf"))>>]
  /\ now = 0
  /\ uuids = 6
  /\ bucketReady = TRUE
  /\ expired = {}
  /\ env = [NODE_ENV |-> "production", MAX_FILE_SIZE |-> 0]
  /\ chatBox = NoChatBox

(***************************************************************************)
(* One analysis request by u1 over the populated store, with every shape   *)
(* of body.                                                                *)
(***************************************************************************)
AnalyzeBodies ==
  [documentId : {0, 1, 3, 9},
   gcsUri : {NoUri, GcsUri(StoredObject(2, "a.pdf")), GcsUri(StoredObject(8, "none.pdf")),
             [scheme |-> "http", bucket |-> BucketName, object |-> StoredObject(2, "a.pdf")]},
   question : {"", "q"}, message : {""}, conversationHistory : {<<>>}]

NextAnalyze ==
  \/ \E b \in AnalyzeBodies :
       Arrive(1, "POST /api/analyze/analyze", Bearer("t1"), NoFile, b, 0, NoQuery)
  \/ authMiddleware(1)
  \/ AnalyzeSteps(1)

SpecAnalyze == InitStored /\ [][NextAnalyze]_vars

(***************************************************************************)
(* One request by u1 or u2 that addresses a record by id over the          *)
(* populated store: its own record, the other user's, or an id with no     *)
(* record (9).                                                             *)
(***************************************************************************)
RecordRoutes ==
  {"GET /api/documents/:id", "DELETE /api/documents/:id", "GET /api/documents/:id/download",
   "GET /api/analyze/:id", "DELETE /api/analyze/:id"}

RecordSteps(r) ==
  \/ validateAnalysisId(r)
  \/ getAnalysis(r)
  \/ getAnalysisLoaded(r)
  \/ deleteAnalysis(r)
  \/ deleteAnalysisLoaded(r)
  \/ deleteAnalysisDeleted(r)
  \/ getDocument(r)
  \/ getDocumentLoaded(r)
  \/ deleteDocument(r)
  \/ deleteDocumentLoaded(r)
  \/ deleteFromGCS(r)
  \/ deleteDocumentDeleted(r)
  \/ downloadDocument(r)
  \/ downloadDocumentLoaded(r)
  \/ getSignedUrl(r)

NextOwner ==
  \/ \E route \in RecordRoutes, h \in GoodHeaders, id \in {1, 3, 5, 6, 9} :
       Arrive(1, route, h, NoFile, NoBody, id, NoQuery)
  \/ \E h \in GoodHeaders, id \in {0, 1, 3, 9},
        uri \in {NoUri, GcsUri(StoredObject(2, "a.pdf"))} :
       Arrive(1, "POST /api/analyze/analyze", h, NoFile,
              [NoBody EXCEPT !.documentId = id, !.gcsUri = uri], 0, NoQuery)
  \/ authMiddleware(1)
  \/ RecordSteps(1)
  \/ AnalyzeSteps(1)

SpecOwner == InitStored /\ [][NextOwner]_vars

(***************************************************************************)
(* Concurrent requests by u1 and u2 on the analyses collection: reads,     *)
(* deletions and listings interleaved with an analysis that adds a record. *)
(***************************************************************************)
HistorySteps(r) ==
  \/ validatePagination(r)
  \/ getAnalysisHistory(r)
  \/ getUserAnalysesOffset(r)
  \/ getUserAnalysesQuery(r)

AnalysisRecordSteps(r) ==
  \/ validateAnalysisId(r)
  \/ getAnalysis(r)
  \/ getAnalysisLoaded(r)
  \/ deleteAnalysis(r)
  \/ deleteAnalysisLoaded(r)
  \/ deleteAnalysisDeleted(r)

NextAccess ==
  \/ \E r \in Req, route \in {"GET /api/analyze/:id", "DELETE /api/analyze/:id"},
        h \in GoodHeaders :
       Arrive(r, route, h, NoFile, NoBody, 6, NoQuery)
  \/ \E r \in Req, h \in GoodHeaders, page \in {1, 2} :
       Arrive(r, "GET /api/analyze/history", h, NoFile, NoBody, 0,
              [NoQuery EXCEPT !.page = page, !.limit = 1])
  \/ \E r \in Req :
       Arrive(r, "POST /api/analyze/analyze", Bearer("t2"), NoFile,
              [NoBody EXCEPT !.documentId = 3], 0, NoQuery)
  \/ \E r \in Req : authMiddleware(r)
  \/ \E r \in Req : AnalysisRecordSteps(r)
  \/ \E r \in Req : HistorySteps(r)
  \/ \E r \in Req : validateAnalysisRequest(r)
  \/ \E r \in Req : analyzeDocument(r)
  \/ \E r \in Req : analyzeGetDocumentData(r)
  \/ \E r \in Req : analyzeWithGemini(r)
  \/ \E r \in Req : analyzeSaveAnalysisData(r)

SpecAccess == InitStored /\ [][NextAccess]_vars

(***************************************************************************)
(* One request on a route of each protected mount, with every kind of      *)
(* Authorization header, while the identity provider may stop accepting a  *)
(* token at any moment.                                                    *)
(***************************************************************************)
Headers ==
  {NoHeader, [scheme |-> "Basic", token |-> "t1"], Bearer(""), Bearer("bad"),
   Bearer("t1"), Bearer("t2")}

ProtectedRoutes ==
  {"GET /api/analyze/:id", "DELETE /api/documents/:id", "GET /api/history",
   "GET /api/history/:id", "DELETE /api/history/:id", "POST /api/upload",
   "POST /api/upload/signed-url"}

Controllers ==
  {"getAnalysis", "deleteDocument", "getAnalysisHistory", "deleteAnalysis", "uploadFile",
   "uploadGetSignedUrl"}

NextAuth ==
  \/ \E route \in ProtectedRoutes, h \in Headers, id \in {3, 6},
        uri \in {NoUri, GcsUri(StoredObject(4, "b.pdf"))} :
       Arrive(1, route, h, NoFile, [NoBody EXCEPT !.gcsUri = uri], id, NoQuery)
  \/ \E t \in {"t1", "t2"} : Expire(t)
  \/ authMiddleware(1)
  \/ optionalAuth(1)
  \/ AnalysisRecordSteps(1)
  \/ getAnalysisHistory(1)
  \/ getUserAnalysesQuery(1)
  \/ deleteDocument(1)
  \/ deleteDocumentLoaded(1)
  \/ deleteFromGCS(1)
  \/ deleteDocumentDeleted(1)
  \/ uploadFile(1)
  \/ uploadGetSignedUrl(1)
  \/ uploadGetSignedUrlSigned(1)

SpecAuth == InitStored /\ [][NextAuth]_vars

(***************************************************************************)
(* The persistence functions alone: a bounded sequence of calls of         *)
(* save / get / update / delete on the documents and analyses collections, *)
(* starting from an empty store, with the server clock advancing between   *)
(* calls.  Call c is recorded in slot c: the function called in route, its *)
(* arguments in id and body, the value it resolved to in out, and status   *)
(* 200 or, for a rejected call, 500.                                       *)
(***************************************************************************)
Calls == 1..MaxCalls

FieldMaps ==
  {[userId |-> "u1", fileName |-> "a.pdf"],
   [userId |-> "u2", createdAt |-> [iso |-> 0]],
   [id |-> 7, userId |-> "u1", updatedAt |-> [iso |-> 0], status |-> "completed"]}

InitStore ==
  /\ req = [c \in Calls |-> IdleReq]
  /\ blobs = {}
  /\ documents = <<>>
  /\ analyses = <<>>
  /\ history = [u \in Users |-> <<>>]
  /\ now = 0
  /\ uuids = 0
  /\ bucketReady = TRUE
  /\ expired = {}
  /\ env = [NODE_ENV |-> "production", MAX_FILE_SIZE |-> 0]
  /\ chatBox = NoChatBox

NextCall(c) == req[c].route = "" /\ \A s \in Calls : s < c => req[s].route # ""

Called(fn, id, data, result, status) ==
  [IdleReq EXCEPT !.route = fn, !.id = id, !.body = data, !.out = result, !.status = status]

CallSaveDocumentData(c, id, data) ==
  /\ NextCall(c)
  /\ documents' = saveDocumentData(documents, id, data)
  /\ req' = [req EXCEPT ![c] = Called("saveDocumentData", id, data, <<>>, 200)]
  /\ UNCHANGED <<chatBox, blobs, analyses, history, now, uuids, bucketReady, expired, env>>

CallGetDocumentData(c, id) ==
  /\ NextCall(c)
  /\ req' = [req EXCEPT ![c] =
       Called("getDocumentData", id, <<>>, getDocumentData(documents, id), 200)]
  /\ UNCHANGED <<chatBox, blobs, documents, analyses, history, now, uuids, bucketReady, expired, env>>

\* updateDoc rejects when the record does not exist
CallUpdateDocumentData(c, id, data) ==
  /\ NextCall(c)
  /\ IF id \in DOMAIN documents
       THEN /\ documents' = updateDocumentData(documents, id, data)
            /\ req' = [req EXCEPT ![c] = Called("updateDocumentData", id, data, <<>>, 200)]
       ELSE /\ req' = [req EXCEPT ![c] = Called("updateDocumentData", id, data, <<>>, 500)]
            /\ UNCHANGED documents
  /\ UNCHANGED <<chatBox, blobs, analyses, history, now, uuids, bucketReady, expired, env>>

CallDeleteDocumentData(c, id) ==
  /\ NextCall(c)
  /\ documents' = deleteDocumentData(documents, id)
  /\ req' = [req EXCEPT ![c] = Called("deleteDocumentData", id, <<>>, <<>>, 200)]
  /\ UNCHANGED <<chatBox, blobs, analyses, history, now, uuids, bucketReady, expired, env>>

CallSaveAnalysisData(c, id, data) ==
  /\ NextCall(c)
  /\ analyses' = saveAnalysisData(analyses, id, data)
  /\ req' = [req EXCEPT ![c] = Called("saveAnalysisData", id, data, <<>>, 200)]
  /\ UNCHANGED <<chatBox, blobs, documents, history, now, uuids, bucketReady, expired, env>>

CallGetAnalysisData(c, id) ==
  /\ NextCall(c)
  /\ req' = [req EXCEPT ![c] =
       Called("getAnalysisData", id, <<>>, getAnalysisData(analyses, id), 200)]
  /\ UNCHANGED <<chatBox, blobs, documents, analyses, history, now, uuids, bucketReady, expired, env>>

CallDeleteAnalysisData(c, id) ==
  /\ NextCall(c)
  /\ analyses' = deleteAnalysisData(analyses, id)
  /\ req' = [req EXCEPT ![c] = Called("deleteAnalysisData", id, <<>>, <<>>, 200)]
  /\ UNCHANGED <<chatBox, blobs, documents, history, now, uuids, bucketReady, expired, env>>

NextStore ==
  \/ \E c \in Calls, id \in {1, 2}, data \in FieldMaps : CallSaveDocumentData(c, id, data)
  \/ \E c \in Calls, id \in {1, 2} : CallGetDocumentData(c, id)
  \/ \E c \in Calls : CallUpdateDocumentData(c, 1, [fileName |-> "b.pdf"])
  \/ \E c \in Calls : CallDeleteDocumentData(c, 1)
  \/ \E c \in Calls, data \in FieldMaps : data.userId = "u1" /\ CallSaveAnalysisData(c, 1, data)
  \/ \E c \in Calls : CallGetAnalysisData(c, 1)
  \/ \E c \in Calls : CallDeleteAnalysisData(c, 1)
  \/ Tick

SpecStore == InitStore /\ [][NextStore]_vars

(***************************************************************************)
(* Listing alone: one GET /api/documents by u1 over a store that holds     *)
(* MaxDocs documents of either user, with equal and different creation     *)
(* times and file names, for every page, limit, sort field and direction.  *)
(* Nothing writes to the store.                                            *)
(***************************************************************************)
DocShapes ==
  [userId : Users, seconds : {0, 1}, fileName : {"a.pdf", "b.pdf"}]

ListedDocument(id, shape) ==
  [StoredDocument(shape.userId, id, shape.fileName)
     EXCEPT !.createdAt = [seconds |-> shape.seconds], !.updatedAt = [seconds |-> shape.seconds]]

InitPage ==
  /\ req = [r \in Req |-> IdleReq]
  /\ \E shape \in [1..MaxDocs -> DocShapes] :
       /\ documents = [id \in 1..MaxDocs |-> ListedDocument(id, shape[id])]
       /\ blobs = {StoredObject(id, shape[id].fileName) : id \in 1..MaxDocs}
  /\ analyses = <<>>
  /\ history = [u \in Users |-> <<>>]
  /\ now = 1
  /\ uuids = MaxDocs
  /\ bucketReady = TRUE
  /\ expired = {}
  /\ env = [NODE_ENV |-> "production", MAX_FILE_SIZE |-> 0]
  /\ chatBox = NoChatBox

PageQueries ==
  [page : 1..4, limit : {1, 2}, sortBy : {"createdAt", "fileName"}, order : {"asc", "desc"},
   documentId : {0}]

NextPage ==
  \/ \E query \in PageQueries :
       Arrive(1, "GET /api/documents", Bearer("t1"), NoFile, NoBody, 0, query)
  \/ authMiddleware(1)
  \/ getDocuments(1)
  \/ getUserDocumentsOffset(1)
  \/ getUserDocumentsQuery(1)

SpecPage == InitPage /\ [][NextPage]_vars

(***************************************************************************)
(* C1 (as claimed): an upload whose MIME type is in the allow-list and     *)
(* whose size is at most 50 MiB has its blob written and gets a            *)
(* gs://<bucket>/<object> uri; any other upload ends in a 4xx validation   *)
(* error with no blob write attempted.  Stated for the default             *)
(* configuration: MAX_FILE_SIZE unset and the bucket handle initialised.   *)
(***************************************************************************)
IsUpload(r) == req[r].route = "POST /api/documents/upload"

WellFormedUri(uri) == uri.scheme = "gs" /\ uri.bucket = BucketName /\ uri.object # NoObject

TypeAndSizeOk(f) ==
  /\ f.present
  /\ f.mimetype \in {"application/pdf", "image/jpeg", "image/png", "image/gif"}
  /\ f.size <= 50 * 1024 * 1024

C1_AsClaimed ==
  \A r \in Req :
    (IsUpload(r) /\ Finished(r) /\ bucketReady /\ env.MAX_FILE_SIZE = 0) =>
      IF TypeAndSizeOk(req[r].file)
        THEN "gcs.write" \in req[r].ext
        ELSE "gcs.write" \notin req[r].ext

(***************************************************************************)
(* C1 (amended): an authenticated upload reaches uploadToGCS, and a blob   *)
(* write is attempted, exactly when the file is present, its MIME type is  *)
(* one multer's fileFilter accepts (PDF, JPEG, PNG, GIF), its size is at   *)
(* most 50 MiB and at most multer's configured limit, its name has 1..255  *)
(* characters, and the bucket handle is initialised.  Every uri            *)
(* uploadToGCS returns is gs://<bucket>/<object> for the object written,   *)
(* and every other upload ends 400, 413 or 500 with no blob written.       *)
(***************************************************************************)
Accepted(f) ==
  /\ TypeAndSizeOk(f)
  /\ env.MAX_FILE_SIZE # 0 => f.size <= env.MAX_FILE_SIZE
  /\ Len(f.originalname) >= 1
  /\ Len(f.originalname) <= 255

C1_Ingestion ==
  \A r \in Req :
    IsUpload(r) =>
      /\ Finished(r) =>
           /\ "gcs.write" \in req[r].ext <=> (Accepted(req[r].file) /\ bucketReady)
           /\ "gcs.write" \notin req[r].ext =>
                /\ req[r].status \in {400, 413, 500}
                /\ req[r].loc.object \notin blobs
      /\ req[r].loc.gcsUri # NoUri =>
           /\ WellFormedUri(req[r].loc.gcsUri)
           /\ req[r].loc.gcsUri.object = req[r].loc.object
           /\ req[r].loc.object \in blobs
           /\ Accepted(req[r].file)

C1_Witness ==
  \E r \in Req :
    /\ IsUpload(r) /\ req[r].status = 200
    /\ req[r].file.size = 50 * 1024 * 1024
    /\ WellFormedUri(req[r].loc.gcsUri)
    /\ req[r].loc.object \in blobs

(***************************************************************************)
(* C5 (as claimed): an upload request that failed at some external call    *)
(* leaves nothing behind: the blob it named is not in the bucket, the      *)
(* document id it drew is not in the documents collection, and the user's  *)
(* history holds no entry for it.                                          *)
(***************************************************************************)
InHistory(uid, uri) ==
  \E i \in 1..Len(history[uid]) : history[uid][i].gcsUri = uri

C5_NothingPartial ==
  \A r \in Req :
    (IsUpload(r) /\ Finished(r) /\ req[r].status = 500 /\ "gcs.write" \in req[r].ext) =>
      /\ req[r].loc.object \notin blobs
      /\ req[r].loc.documentId \notin DOMAIN documents
      /\ ~InHistory(req[r].user, GcsUri(req[r].loc.object))

(***************************************************************************)
(* C2: an analysis request that passed authentication and whose body has   *)
(* neither documentId nor gcsUri is answered 400, and when the 400 is sent *)
(* no document-database read, OCR call or generative-AI call has been      *)
(* issued for it.                                                          *)
(***************************************************************************)
IsAnalyze(r) == req[r].route = "POST /api/analyze/analyze"

HasNeither(body) == body.documentId = 0 /\ body.gcsUri.scheme = ""

ServiceCalls == {"db.getDocument", "db.saveAnalysis", "db.saveDocument", "db.saveHistory",
                 "ocr", "gemini", "gcs.write"}

C2_MissingBoth400 ==
  \A r \in Req :
    (IsAnalyze(r) /\ HasNeither(req[r].body)) =>
      /\ req[r].ext \cap ServiceCalls = {}
      /\ (Finished(r) /\ req[r].user # "unset") => req[r].status = 400

C2_Witness ==
  \E r \in Req :
    /\ IsAnalyze(r) /\ HasNeither(req[r].body) /\ req[r].body.question = "q"
    /\ req[r].user = "u1" /\ req[r].status = 400

(***************************************************************************)
(* C6: saveAnalysisData is called only by a request whose generative-AI    *)
(* call returned text and whose OCR call, if it ran, returned text; so     *)
(* every record of the analyses collection has status 'completed' and,     *)
(* when written during the run, belongs to such a request.                 *)
(***************************************************************************)
InitialAnalyses == {5, 6}

Succeeded(r) ==
  /\ req[r].loc.gemini = "text"
  /\ req[r].loc.ocr \in {"", "text"}
  /\ req[r].loc.text # ""

C6_OnlySuccessfulAnalysesStored ==
  /\ \A r \in Req : "db.saveAnalysis" \in req[r].ext => Succeeded(r)
  /\ \A id \in DOMAIN analyses :
       /\ analyses[id].status = "completed"
       /\ id \notin InitialAnalyses =>
            \E r \in Req : IsAnalyze(r) /\ req[r].loc.analysisId = id /\ Succeeded(r)

C6_Witness ==
  \E r \in Req :
    /\ IsAnalyze(r) /\ req[r].status = 200 /\ req[r].loc.ocr = "text"
    /\ req[r].loc.analysisId \in DOMAIN analyses

(***************************************************************************)
(* C3 (as claimed): for getDocument, deleteDocument, downloadDocument,     *)
(* getAnalysis, deleteAnalysis and analyzeDocument by documentId, a        *)
(* request whose authenticated uid is not the stored owner of the          *)
(* addressed record is answered 403 whether or not the record exists       *)
(* (a failed read of the store, answered 500, set aside).                  *)
(***************************************************************************)
OnDocuments(r) ==
  req[r].route \in {"GET /api/documents/:id", "DELETE /api/documents/:id",
                    "GET /api/documents/:id/download"}

OnAnalyses(r) == req[r].route \in {"GET /api/analyze/:id", "DELETE /api/analyze/:id"}

ByDocumentId(r) == IsAnalyze(r) /\ req[r].body.documentId # 0

AddressesRecord(r) == OnDocuments(r) \/ OnAnalyses(r) \/ ByDocumentId(r)

\* the owner of the addressed record in the populated store, "none" without a record
StoredOwner(r) ==
  IF OnAnalyses(r)
    THEN IF req[r].id \in DOMAIN StoredAnalyses THEN StoredAnalyses[req[r].id].userId ELSE "none"
  ELSE IF OnDocuments(r)
    THEN IF req[r].id \in DOMAIN StoredDocuments THEN StoredDocuments[req[r].id].userId ELSE "none"
  ELSE IF req[r].body.documentId \in DOMAIN StoredDocuments
    THEN StoredDocuments[req[r].body.documentId].userId
  ELSE "none"

NotOwner(r) == AddressesRecord(r) /\ req[r].user \in Users /\ StoredOwner(r) # req[r].user

C3_AsClaimed ==
  \A r \in Req :
    (NotOwner(r) /\ Finished(r) /\ req[r].status # 500) => req[r].status = 403

(***************************************************************************)
(* C3 (amended): such a request is answered 403 when the addressed record  *)
(* exists and belongs to another user, and 404 when no record has that id  *)
(* (500 when the read of the record itself fails); in every case it is     *)
(* given no content, it issues no call beyond the read of the record, and  *)
(* the store is left as it was.                                            *)
(***************************************************************************)
C3_Ownership ==
  \A r \in Req :
    NotOwner(r) =>
      /\ req[r].ext \subseteq {"verifyIdToken", "db.getDocument", "db.getAnalysis"}
      /\ blobs = StoredBlobs /\ documents = StoredDocuments /\ analyses = StoredAnalyses
      /\ Finished(r) =>
           /\ req[r].out = <<>>
           /\ req[r].status \in {IF StoredOwner(r) = "none" THEN 404 ELSE 403, 500}
           /\ req[r].status = 500 => req[r].error # "Access denied"

C3_Witness ==
  \E r \in Req :
    /\ req[r].route = "DELETE /api/documents/:id" /\ req[r].user = "u2" /\ req[r].id = 1
    /\ req[r].status = 403 /\ 1 \in DOMAIN documents

(***************************************************************************)
(* C4: under any interleaving of requests by several users, getAnalysis    *)
(* returns an analysis record, and deleteAnalysis calls deleteAnalysisData *)
(* for one, only when the request's authenticated uid is the record's      *)
(* userId; a listing by getAnalysisHistory holds only records whose userId *)
(* is the requester's uid; and an initial record that has gone was deleted *)
(* by a request of its owner.                                              *)
(***************************************************************************)
\* the owner of an analysis id: as stored initially, or the user of the request that drew it
AnalysisOwner(id) ==
  IF id \in DOMAIN StoredAnalyses THEN StoredAnalyses[id].userId
  ELSE IF \E r \in Req : IsAnalyze(r) /\ req[r].loc.analysisId = id
    THEN req[CHOOSE r \in Req : IsAnalyze(r) /\ req[r].loc.analysisId = id].user
  ELSE "none"

Authenticated(r) == req[r].user \in Users /\ req[r].user = TokenUid(req[r].hdr.token)

C4_OwnerOnlyAccess ==
  /\ \A id \in DOMAIN analyses : analyses[id].userId = AnalysisOwner(id)
  /\ \A r \in Req :
       /\ (req[r].route = "GET /api/analyze/:id" /\ req[r].status = 200) =>
            /\ Authenticated(r)
            /\ req[r].out.analysis.id = req[r].id
            /\ req[r].out.analysis.userId = req[r].user
            /\ AnalysisOwner(req[r].id) = req[r].user
       /\ (req[r].route = "DELETE /api/analyze/:id" /\ "db.deleteAnalysis" \in req[r].ext) =>
            /\ Authenticated(r)
            /\ AnalysisOwner(req[r].id) = req[r].user
       /\ (req[r].route = "GET /api/analyze/history" /\ req[r].status = 200) =>
            /\ Authenticated(r)
            /\ \A i \in 1..Len(req[r].out.analyses) :
                 /\ req[r].out.analyses[i].userId = req[r].user
                 /\ AnalysisOwner(req[r].out.analyses[i].id) = req[r].user
  /\ \A id \in DOMAIN StoredAnalyses \ DOMAIN analyses :
       \E r \in Req :
         /\ req[r].route = "DELETE /api/analyze/:id" /\ req[r].id = id
         /\ req[r].user = StoredAnalyses[id].userId

C4_Witness ==
  \E r1, r2 \in Req :
    /\ req[r1].route = "GET /api/analyze/history" /\ req[r1].user = "u2"
    /\ req[r1].query.page = 2 /\ req[r1].status = 200 /\ Len(req[r1].out.analyses) = 1
    /\ req[r2].route = "POST /api/analyze/analyze" /\ req[r2].status = 200

(***************************************************************************)
(* C7 (as claimed): on every route under /api/analyze, /api/documents,     *)
(* /api/history and /api/upload the controller runs only after             *)
(* verifyIdToken accepted the Bearer token of the request, and with        *)
(* req.user.uid the uid that token decodes to; a request without a header, *)
(* with a non-Bearer header, an empty token or a token the provider does   *)
(* not accept is answered 401 and reaches no controller.                   *)
(***************************************************************************)
Protected(r) == req[r].route \in ProtectedRoutes

ControllerRuns(r) == req[r].chain # <<>> /\ Head(req[r].chain) \in Controllers

BadCredentials(r) ==
  \/ req[r].hdr.scheme # "Bearer"
  \/ req[r].hdr.token = ""
  \/ TokenUid(req[r].hdr.token) = "null"

C7_AuthOnProtectedRoutes ==
  \A r \in Req :
    Protected(r) =>
      /\ ControllerRuns(r) =>
           /\ "verifyIdToken" \in req[r].ext
           /\ req[r].hdr.scheme = "Bearer"
           /\ req[r].user \in Users
           /\ req[r].user = TokenUid(req[r].hdr.token)
      /\ (BadCredentials(r) /\ Finished(r)) =>
           /\ req[r].status = 401
           /\ ~ControllerRuns(r)
           /\ req[r].ext \subseteq {"verifyIdToken"}

(***************************************************************************)
(* C8 (as claimed): a get of an id whose latest earlier write is a save    *)
(* returns a record with every field supplied to that save, at its         *)
(* supplied value, together with createdAt and updatedAt.                  *)
(***************************************************************************)
CollectionOf(fn) ==
  IF fn \in {"saveDocumentData", "getDocumentData", "updateDocumentData", "deleteDocumentData"}
    THEN "documents"
  ELSE IF fn \in {"saveAnalysisData", "getAnalysisData", "deleteAnalysisData"} THEN "analyses"
  ELSE "none"

IsSave(c) == req[c].route \in {"saveDocumentData", "saveAnalysisData"}
IsGet(c) == req[c].route \in {"getDocumentData", "getAnalysisData"}
IsDelete(c) == req[c].route \in {"deleteDocumentData", "deleteAnalysisData"}
IsWrite(c) == IsSave(c) \/ IsDelete(c) \/ (req[c].route = "updateDocumentData" /\ req[c].status = 200)

SameRecord(c, d) ==
  CollectionOf(req[c].route) = CollectionOf(req[d].route) /\ req[c].id = req[d].id

\* call c is the latest write to the record that call d addresses
LatestWriteBefore(c, d) ==
  /\ c < d /\ IsWrite(c) /\ SameRecord(c, d)
  /\ \A e \in Calls : (c < e /\ e < d /\ IsWrite(e)) => ~SameRecord(e, d)

C8_AsClaimed ==
  \A c, d \in Calls :
    (IsSave(c) /\ IsGet(d) /\ LatestWriteBefore(c, d)) =>
      /\ \A k \in DOMAIN req[c].body :
           k \in DOMAIN req[d].out /\ req[d].out[k] = req[c].body[k]
      /\ {"createdAt", "updatedAt"} \subseteq DOMAIN req[d].out

(***************************************************************************)
(* C8 (amended): such a get returns exactly the supplied fields other than *)
(* createdAt and updatedAt at their supplied values, the record's id when  *)
(* no id field was supplied, and createdAt = updatedAt = a server          *)
(* timestamp that replaces any supplied createdAt / updatedAt; a get of an *)
(* id never written, or whose latest write is a delete, returns null.      *)
(***************************************************************************)
IsServerTimestamp(v) == DOMAIN v = {"seconds"} /\ v.seconds \in 0..now

C8_RoundTrip ==
  \A d \in Calls :
    IsGet(d) =>
      /\ (\A c \in Calls : ~LatestWriteBefore(c, d)) => req[d].out = Null
      /\ \A c \in Calls :
           LatestWriteBefore(c, d) =>
             /\ IsDelete(c) => req[d].out = Null
             /\ IsSave(c) =>
                  /\ DOMAIN req[d].out = DOMAIN req[c].body \cup {"id", "createdAt", "updatedAt"}
                  /\ \A k \in DOMAIN req[c].body \ {"createdAt", "updatedAt"} :
                       req[d].out[k] = req[c].body[k]
                  /\ "id" \notin DOMAIN req[c].body => req[d].out.id = req[d].id
                  /\ IsServerTimestamp(req[d].out.createdAt)
                  /\ req[d].out.updatedAt = req[d].out.createdAt

C8_Witness ==
  \E c, d \in Calls :
    /\ IsSave(c) /\ IsGet(d) /\ LatestWriteBefore(c, d)
    /\ "createdAt" \in DOMAIN req[c].body
    /\ req[d].out.userId = "u2" /\ req[d].out.createdAt = [seconds |-> 1]

(***************************************************************************)
(* C10: for a fixed store, user, sort field, direction and limit L, the    *)
(* list getUserDocuments returns for page p is exactly positions           *)
(* (p-1)*L+1 .. p*L of that user's documents in the requested order (ties  *)
(* in the sort field broken by document id), cut at the end of the list;   *)
(* so pages neither overlap nor skip, and a page past the end is empty.    *)
(***************************************************************************)
IsListing(r) == req[r].route = "GET /api/documents" /\ req[r].status = 200

\* the ids of uid's documents, in the requested order
UserDocuments(uid, sortBy, order) ==
  Ordered({Snapshot(documents, id, sortBy) :
             id \in {i \in DOMAIN documents : documents[i].userId = uid}}, order)

Min(a, b) == IF a < b THEN a ELSE b

PageOf(full, p, L) == SubSeq(full, (p - 1) * L + 1, Min(p * L, Len(full)))

SmallPdf == [present |-> TRUE, mimetype |-> "application/pdf", size |-> 1, originalname |-> "a.pdf"]

NextUploads ==
  \/ \E r \in Req, h \in GoodHeaders :
       Arrive(r, "POST /api/documents/upload", h, SmallPdf, NoBody, 0, NoQuery)
  \/ \E r \in Req : UploadSteps(r)

SpecUploads == Init /\ [][NextUploads]_vars

(***************************************************************************)
(* C11: for any interleaving of concurrent uploads by the same user, once  *)
(* all of them have completed successfully the user's history holds one    *)
(* entry for each of those uploads: no append is lost or overwritten.      *)
(***************************************************************************)
UploadsOf(u) == {r \in Req : IsUpload(r) /\ req[r].hdr = Bearer(IF u = "u1" THEN "t1" ELSE "t2")}

UploadedOk(r) == IsUpload(r) /\ req[r].status = 200

EntriesFor(u, uri) == {i \in 1..Len(history[u]) : history[u][i].gcsUri = uri}

C11_NoAppendLost ==
  \A u \in Users :
    (UploadsOf(u) # {} /\ \A r \in UploadsOf(u) : UploadedOk(r)) =>
      /\ \A r \in UploadsOf(u) : Cardinality(EntriesFor(u, req[r].loc.gcsUri)) = 1
      /\ Len(history[u]) = Cardinality(UploadsOf(u))

\* two uploads of u1 succeeded, and the one that arrived later drew its ids first
C11_Witness ==
  /\ UploadsOf("u1") = {1, 2}
  /\ UploadedOk(1) /\ UploadedOk(2)
  /\ req[2].loc.documentId < req[1].loc.documentId
  /\ Len(history["u1"]) = 2


(***************************************************************************)
(* The life of documents: concurrent uploads, analyses, chats and          *)
(* deletions of documents and analyses over the populated store: u2       *)
(* uploads and deletes documents (its own 3, a new one 7, and u1's 1), u1  *)
(* has its document analysed, chats about it and deletes its analysis.     *)
(***************************************************************************)
NextLife ==
  \/ \E r \in Req :
       Arrive(r, "POST /api/documents/upload", Bearer("t2"), SmallPdf, NoBody, 0, NoQuery)
  \/ \E r \in Req, id \in {1, 3, 7} :
       Arrive(r, "DELETE /api/documents/:id", Bearer("t2"), NoFile, NoBody, id, NoQuery)
  \/ \E r \in Req :
       Arrive(r, "POST /api/analyze/analyze", Bearer("t1"), NoFile,
              [NoBody EXCEPT !.documentId = 1], 0, NoQuery)
  \/ \E r \in Req :
       Arrive(r, "POST /api/analyze/chat", Bearer("t1"), NoFile,
              [NoBody EXCEPT !.documentId = 1, !.message = "m"], 0, NoQuery)
  \/ \E r \in Req :
       Arrive(r, "DELETE /api/analyze/:id", Bearer("t1"), NoFile, NoBody, 5, NoQuery)
  \/ \E r \in Req : authMiddleware(r)
  \/ \E r \in Req : UploadSteps(r)
  \/ \E r \in Req : deleteDocument(r)
  \/ \E r \in Req : deleteDocumentLoaded(r)
  \/ \E r \in Req : deleteFromGCS(r)
  \/ \E r \in Req : deleteDocumentDeleted(r)
  \/ \E r \in Req : validateAnalysisRequest(r)
  \/ \E r \in Req : analyzeDocument(r)
  \/ \E r \in Req : analyzeGetDocumentData(r)
  \/ \E r \in Req : analyzeWithGemini(r)
  \/ \E r \in Req : analyzeSaveAnalysisData(r)
  \/ \E r \in Req : validateChatRequest(r)
  \/ \E r \in Req : chatWithDocument(r)
  \/ \E r \in Req : chatGetDocumentData(r)
  \/ \E r \in Req : chatWithGemini(r)
  \/ \E r \in Req : validateAnalysisId(r)
  \/ \E r \in Req : deleteAnalysis(r)
  \/ \E r \in Req : deleteAnalysisLoaded(r)
  \/ \E r \in Req : deleteAnalysisDeleted(r)

SpecLife == InitStored /\ [][NextLife]_vars


(***************************************************************************)
(* C12: a user's history list is append-only.  Every step of every         *)
(* request (uploads, analyses, chats, deletions of documents and of        *)
(* analyses) leaves each entry of history[u] in place and unmodified, and  *)
(* the only step that adds an entry is the one that completes, with 200,   *)
(* an upload authenticated as u: it appends that upload's entry.  In       *)
(* particular deleteDocument leaves the history unchanged.                 *)
(***************************************************************************)
IsPrefix(s, t) == Len(s) <= Len(t) /\ SubSeq(t, 1, Len(s)) = s

CompletesUploadAs(r, u) ==
  /\ IsUpload(r) /\ req[r].status = 0 /\ req'[r].status = 200
  /\ req[r].user = u /\ TokenUid(req[r].hdr.token) = u
  /\ history'[u] = Append(history[u], documentData(req[r]))

C12_HistoryAppendOnly ==
  [][\A u \in Users :
       /\ IsPrefix(history[u], history'[u])
       /\ history'[u] # history[u] => \E r \in Req : CompletesUploadAs(r, u)]_vars

\* u2 uploaded a second document and deleted it again: its entry stays in the history
C12_Witness ==
  \E r, d \in Req :
    /\ UploadedOk(r) /\ req[r].user = "u2"
    /\ req[d].route = "DELETE /api/documents/:id" /\ req[d].status = 200
    /\ req[d].user = "u2" /\ req[d].id = req[r].loc.documentId
    /\ req[d].id \notin DOMAIN documents
    /\ Len(history["u2"]) = 2
    /\ history["u2"][1] = HistoryEntry(StoredDocument("u2", 4, "b.pdf"))
    /\ history["u2"][2].gcsUri = req[r].loc.gcsUri


(***************************************************************************)
(* Deletion of a document by its owner while other requests read it: u1    *)
(* deletes document 1, u2 tries to, and u1 fetches it.                     *)
(***************************************************************************)
NextDelete ==
  \/ \E r \in Req, h \in GoodHeaders :
       Arrive(r, "DELETE /api/documents/:id", h, NoFile, NoBody, 1, NoQuery)
  \/ \E r \in Req :
       Arrive(r, "GET /api/documents/:id", Bearer("t1"), NoFile, NoBody, 1, NoQuery)
  \/ \E r \in Req : authMiddleware(r)
  \/ \E r \in Req : deleteDocument(r)
  \/ \E r \in Req : deleteDocumentLoaded(r)
  \/ \E r \in Req : deleteFromGCS(r)
  \/ \E r \in Req : deleteDocumentDeleted(r)
  \/ \E r \in Req : getDocument(r)
  \/ \E r \in Req : getDocumentLoaded(r)

SpecDelete == InitStored /\ [][NextDelete]_vars

(***************************************************************************)
(* C13: once the owner's DELETE /api/documents/:id is answered 200,        *)
(* neither the blob at the document's storage uri nor the document record  *)
(* exists, and a getDocument for that id answered from then on is 404      *)
(* (500 if the read itself fails), never 200 or 403.  The record is        *)
(* removed outright: as long as other requests can read a record it is the *)
(* record as it was saved, with no deletion mark on it.                    *)
(***************************************************************************)
DeletedByOwner(d) ==
  /\ req[d].route = "DELETE /api/documents/:id" /\ req[d].status = 200
  /\ req[d].user = StoredDocuments[req[d].id].userId

C13_Gone ==
  /\ \A d \in Req :
       DeletedByOwner(d) =>
         /\ req[d].id \notin DOMAIN documents
         /\ ObjectOf(StoredDocuments[req[d].id].gcsUri) \notin blobs
  /\ \A id \in DOMAIN documents : documents[id] = StoredDocuments[id]

CreatedBy(r, id) ==
  /\ IsUpload(r) /\ req[r].loc.documentId = id
  /\ req[r].user = TokenUid(req[r].hdr.token)
  /\ documents'[id].userId = req[r].user

C14_OwnerNeverChanges ==
  [][\A id \in DOMAIN documents' :
       IF id \in DOMAIN documents
         THEN documents'[id].userId = documents[id].userId
         ELSE \E r \in Req : CreatedBy(r, id)]_vars

\* u2's new document exists next to u1's stored one after u2 tried to delete that
C14_Witness ==
  \E r, d \in Req :
    /\ UploadedOk(r) /\ req[r].user = "u2"
    /\ req[r].loc.documentId \in DOMAIN documents
    /\ documents[req[r].loc.documentId].userId = "u2"
    /\ req[d].route = "DELETE /api/documents/:id" /\ req[d].id = 1 /\ req[d].status = 403
    /\ documents[1].userId = "u1"


(***************************************************************************)
(* C15: every upload rejected for a validation reason (no file, a MIME     *)
(* type outside the allow-list, a size above 50 MiB) is answered 400,      *)
(* whichever layer detects it: multer's fileFilter, multer's size limit or *)
(* validateFileUpload.                                                     *)
(***************************************************************************)
InvalidUpload(f) ==
  \/ ~f.present
  \/ f.mimetype \notin ValidateAllowedTypes
  \/ f.size > maxSize

C15_ValidationAnswered400 ==
  \A r \in Req :
    (IsUpload(r) /\ Finished(r) /\ req[r].user \in Users /\ InvalidUpload(req[r].file))
      => req[r].status = 400


(***************************************************************************)
(* The three flows that call the OCR and generative services: one upload,  *)
(* analysis or chat request by u1 over the populated store, with every     *)
(* shape of body and every outcome of each service call.                   *)
(***************************************************************************)
Turns == {[question |-> "q1", answer |-> "a1"], [question |-> "q2", answer |-> "a2"]}

Histories == UNION {[1..n -> Turns] : n \in 0..MaxTurns}

ChatBodies ==
  [documentId : {0, 1, 3, 9},
   gcsUri : {NoUri, GcsUri(StoredObject(2, "a.pdf")), GcsUri(StoredObject(8, "none.pdf"))},
   question : {""}, message : {"", "m"}, conversationHistory : Histories]

NextFlows ==
  \/ \E f \in {NoFile, SmallPdf} :
       Arrive(1, "POST /api/documents/upload", Bearer("t1"), f, NoBody, 0, NoQuery)
  \/ \E b \in AnalyzeBodies :
       Arrive(1, "POST /api/analyze/analyze", Bearer("t1"), NoFile, b, 0, NoQuery)
  \/ \E b \in ChatBodies :
       Arrive(1, "POST /api/analyze/chat", Bearer("t1"), NoFile, b, 0, NoQuery)
  \/ UploadSteps(1)
  \/ AnalyzeSteps(1)
  \/ ChatSteps(1)

SpecFlows == InitStored /\ [][NextFlows]_vars

(***************************************************************************)
(* C16: an upstream failure during analyze, chat or upload is answered     *)
(* with a status that depends on its category: quota exhaustion of the     *)
(* generative service with 429, an OCR failure and a storage failure with  *)
(* 500.                                                                    *)
(***************************************************************************)
QuotaExhausted(r) == req[r].loc.gemini = "QUOTA_EXCEEDED"

OcrFailed(r) == req[r].loc.ocr \in {"empty", "error"}

StorageFailed(r) == req[r].error \in {"stream error", "firestore error"}

C16_StatusByCategory ==
  \A r \in Req :
    Finished(r) =>
      /\ QuotaExhausted(r) => req[r].status = 429
      /\ OcrFailed(r) => req[r].status = 500
      /\ StorageFailed(r) => req[r].status = 500


(***************************************************************************)
(* C17: when the generative service fails with a content-safety, quota or  *)
(* invalid-credential error, the error analyzeWithGemini / chatWithGemini  *)
(* raise, which analyzeDocument / chatWithDocument put in the response's   *)
(* error field, is the message of that category; the three messages differ *)
(* from one another and from the generic 'Analysis failed: ...' / 'Chat    *)
(* failed: ...' form, which every other failure gets.                      *)
(***************************************************************************)
IsChat(r) == req[r].route = "POST /api/analyze/chat"

FailureCategories == {"SAFETY", "QUOTA_EXCEEDED", "INVALID_API_KEY"}

GenericForm ==
  {"Analysis failed: upstream", "Analysis failed: No response generated from Gemini",
   "Chat failed: upstream", "Chat failed: No response generated from Gemini"}

GeminiFailed(r) ==
  (IsAnalyze(r) \/ IsChat(r)) /\ Finished(r) /\ req[r].loc.gemini \notin {"", "text"}

C17_CategoryMessages ==
  /\ \A r \in Req :
       GeminiFailed(r) =>
         LET c == req[r].loc.gemini
             e == req[r].error
         IN /\ c = "SAFETY" /\ IsAnalyze(r) =>
                 e = "Content was flagged by safety filters. Please try rephrasing your request."
            /\ c = "SAFETY" /\ IsChat(r) =>
                 e = "Content was flagged by safety filters. Please try rephrasing your question."
            /\ c = "QUOTA_EXCEEDED" => e = "API quota exceeded. Please try again later."
            /\ c = "INVALID_API_KEY" =>
                 e = "Invalid API key. Please check your Gemini API configuration."
            /\ e \in GenericForm <=> c \notin FailureCategories
  /\ \A c, d \in FailureCategories :
       c # d => /\ analyzeWithGeminiError(c) # analyzeWithGeminiError(d)
                /\ chatWithGeminiError(c) # chatWithGeminiError(d)

C17_Witness ==
  \E r \in Req :
    /\ IsChat(r) /\ req[r].status = 500 /\ req[r].loc.gemini = "QUOTA_EXCEEDED"
    /\ req[r].error = "API quota exceeded. Please try again later."
    /\ Len(req[r].body.conversationHistory) = 1


(***************************************************************************)
(* C18: when the OCR service returns no text, extractText raises instead   *)
(* of returning a result, and the calling flow (upload, analysis, chat)    *)
(* ends there with an error response: the generative service is not        *)
(* called for that request, it is never called with empty document text,   *)
(* and no document or analysis record is written for the request.          *)
(***************************************************************************)
OcrReturnedNoText(r) == req[r].loc.ocr = "empty"

RecordWrites == {"db.saveDocument", "db.saveHistory", "db.saveAnalysis"}

C18_EmptyTextIsFatal ==
  \A r \in Req :
    /\ OcrReturnedNoText(r) =>
         /\ req[r].status \in {400, 500}
         /\ req[r].loc.text = ""
         /\ req[r].ext \cap ({"gemini"} \cup RecordWrites) = {}
         /\ req[r].loc.prompt = <<>> /\ req[r].loc.contents = <<>>
         /\ documents = StoredDocuments /\ analyses = StoredAnalyses
    /\ "gemini" \in req[r].ext => req[r].loc.text # ""

\* a chat about a stored blob whose OCR gave no text was answered 400 before any prompt was built
C18_Witness ==
  \E r \in Req :
    /\ IsChat(r) /\ OcrReturnedNoText(r)
    /\ req[r].body.gcsUri = GcsUri(StoredObject(2, "a.pdf")) /\ req[r].body.message = "m"
    /\ req[r].status = 400 /\ req[r].error = "No text content available for chat"


(***************************************************************************)
(* C19: for a chat request with n >= 0 prior turns the prompt assembled by *)
(* chatWithDocument holds the document content first, then every prior     *)
(* turn i = 1..n in order as its question line followed by its answer      *)
(* line, and the current message after all of them; no turn is dropped,    *)
(* duplicated or reordered.                                                *)
(***************************************************************************)
PromptBuilt(r) == IsChat(r) /\ req[r].loc.prompt # <<>>

C19_PromptOrder ==
  \A r \in Req :
    PromptBuilt(r) =>
      LET p == req[r].loc.prompt
          turns == req[r].body.conversationHistory
          n == Len(turns)
      IN /\ Len(p) = IF n = 0 THEN 2 ELSE 2 * n + 3
         /\ p[1] = [label |-> "Document content", index |-> 0, text |-> req[r].loc.text]
         /\ req[r].loc.text # ""
         /\ n > 0 => p[2].label = "Previous conversation"
         /\ \A i \in 1..n :
              /\ p[2 * i + 1] = [label |-> "Q", index |-> i, text |-> turns[i].question]
              /\ p[2 * i + 2] = [label |-> "A", index |-> i, text |-> turns[i].answer]
         /\ p[Len(p)] = [label |-> "Current question", index |-> 0,
                         text |-> req[r].body.message]

\* a chat with two different prior turns was answered
C19_Witness ==
  \E r \in Req :
    /\ PromptBuilt(r) /\ req[r].status = 200
    /\ Len(req[r].body.conversationHistory) = 2
    /\ req[r].body.conversationHistory[1] # req[r].body.conversationHistory[2]
    /\ Len(req[r].loc.prompt) = 7


(***************************************************************************)
(* C20 (as claimed): for a chat request carrying n prior turns, the        *)
(* message list sent to the generative service has 2n+1 entries: for each  *)
(* prior turn in order a 'user' message with the question followed by a    *)
(* 'model' message with the answer, and last a 'user' message with the     *)
(* current turn.                                                           *)
(***************************************************************************)
ChatSent(r) == IsChat(r) /\ req[r].loc.contents # <<>>

\* contents threads the turns of history and ends with a user message
Threads(contents, turns) ==
  /\ Len(contents) = 2 * Len(turns) + 1
  /\ \A i \in 1..Len(turns) :
       /\ contents[2 * i - 1] = [role |-> "user", text |-> turns[i].question]
       /\ contents[2 * i] = [role |-> "model", text |-> turns[i].answer]
  /\ contents[Len(contents)].role = "user"

C20_AsClaimed ==
  \A r \in Req : ChatSent(r) => Threads(req[r].loc.contents, req[r].body.conversationHistory)

(***************************************************************************)
(* C20 (amended): chatWithDocument calls chatWithGemini with the prompt    *)
(* alone, so for a chat request carrying n prior turns the message list    *)
(* sent has exactly one entry, a 'user' message holding the assembled      *)
(* prompt, in which the n turns stand as transcript lines.  chatWithGemini *)
(* itself, given a history of n turns, builds 2n+1 entries: per turn in    *)
(* order a 'user' question and a 'model' answer, and last a 'user' message *)
(* with the prompt.                                                        *)
(***************************************************************************)
C20_OneUserMessage ==
  /\ \A r \in Req :
       ChatSent(r) =>
         /\ req[r].loc.contents = <<[role |-> "user", text |-> req[r].loc.prompt]>>
         /\ \A i \in 1..Len(req[r].body.conversationHistory) :
              req[r].loc.prompt[2 * i + 1].text = req[r].body.conversationHistory[i].question
  /\ \A turns \in Histories :
       /\ Threads(chatContents("prompt", turns), turns)
       /\ chatContents("prompt", turns)[2 * Len(turns) + 1].text = "prompt"

\* a chat with two prior turns reached the generative service as a single message
C20_Witness ==
  \E r \in Req :
    /\ ChatSent(r) /\ req[r].status = 200
    /\ Len(req[r].body.conversationHistory) = 2
    /\ Len(req[r].loc.contents) = 1


(***************************************************************************)
(* C21: any two accepted uploads are written under different object        *)
(* names, so no upload overwrites another upload's blob and no two         *)
(* document records share a storage uri, in every interleaving, also for   *)
(* two uploads by the same user with the same file name that read the same *)
(* clock value.                                                            *)
(***************************************************************************)
Named(r) == IsUpload(r) /\ req[r].loc.object # NoObject

Written(r) == IsUpload(r) /\ req[r].loc.gcsUri # NoUri

C21_DistinctObjectNames ==
  /\ \A r, s \in Req : (r # s /\ Named(r) /\ Named(s)) => req[r].loc.object # req[s].loc.object
  /\ \A r \in Req : Written(r) => req[r].loc.object \in blobs
  /\ Cardinality(blobs) = Cardinality({r \in Req : Written(r)})
  /\ \A i, j \in DOMAIN documents : i # j => documents[i].gcsUri # documents[j].gcsUri

\* two uploads of u1 with the same file name at the same clock value both succeeded
C21_Witness ==
  /\ UploadedOk(1) /\ UploadedOk(2)
  /\ req[1].user = "u1" /\ req[2].user = "u1"
  /\ req[1].loc.object.name = req[2].loc.object.name
  /\ req[1].loc.object.ts = req[2].loc.object.ts
  /\ Cardinality(blobs) = 2
  /\ Cardinality(DOMAIN documents) = 2


(***************************************************************************)
(* services/ocrService.js: calculateConfidence.  Confidences are counted   *)
(* in hundredths and a result is the fraction num / den, so that no        *)
(* division is rounded.                                                    *)
(***************************************************************************)
\* token.detectedBreak && token.detectedBreak.confidence
HasBreakConfidence(token) == token.detectedBreak /\ token.confidence # 0

\* page.tokens.forEach(token => { totalConfidence += ...; elementCount++ })
RECURSIVE forEachToken(_, _)
forEachToken(acc, tokens) ==
  IF tokens = <<>> THEN acc
  ELSE forEachToken(IF HasBreakConfidence(Head(tokens))
                      THEN [totalConfidence |-> acc.totalConfidence + Head(tokens).confidence,
                            elementCount |-> acc.elementCount + 1]
                      ELSE acc,
                    Tail(tokens))

\* document.pages.forEach(page => { if (page.tokens) ... })
RECURSIVE forEachPage(_, _)
forEachPage(acc, pages) ==
  IF pages = <<>> THEN acc
  ELSE forEachPage(IF Head(pages).hasTokens THEN forEachToken(acc, Head(pages).tokens) ELSE acc,
                   Tail(pages))

calculateConfidence(document) ==
  IF ~document.hasPages THEN [num |-> 0, den |-> 1]
  ELSE LET acc == forEachPage([totalConfidence |-> 0, elementCount |-> 0], document.pages)
       IN IF acc.elementCount > 0
            THEN [num |-> acc.totalConfidence, den |-> acc.elementCount]
            ELSE [num |-> 80, den |-> 1]

(***************************************************************************)
(* Two calls of calculateConfidence on OCR results of every shape: no      *)
(* pages, pages without tokens, tokens with and without a break            *)
(* confidence.                                                             *)
(***************************************************************************)
TokenKinds ==
  {[detectedBreak |-> FALSE, confidence |-> 0], [detectedBreak |-> TRUE, confidence |-> 0],
   [detectedBreak |-> TRUE, confidence |-> 40], [detectedBreak |-> TRUE, confidence |-> 100]}

PagesOfSize(n) ==
  {[hasTokens |-> FALSE, tokens |-> <<>>]} \cup
  {[hasTokens |-> TRUE, tokens |-> ts] : ts \in UNION {[1..k -> TokenKinds] : k \in 0..n}}

OcrDocuments ==
  {[hasPages |-> FALSE, pages |-> <<>>], [hasPages |-> TRUE, pages |-> <<>>]}
  \cup {[hasPages |-> TRUE, pages |-> <<p>>] : p \in PagesOfSize(MaxTokens)}
  \cup {[hasPages |-> TRUE, pages |-> <<p, q>>] : p, q \in PagesOfSize(1)}

CallCalculateConfidence(c, document) ==
  /\ req[c].route = "" /\ \A s \in {1, 2} : s < c => req[s].route # ""
  /\ req' = [req EXCEPT ![c] =
       Called("calculateConfidence", 0, document, calculateConfidence(document), 200)]
  /\ UNCHANGED <<chatBox, blobs, documents, analyses, history, now, uuids, bucketReady, expired, env>>

NextConfidence == \E c \in {1, 2}, document \in OcrDocuments : CallCalculateConfidence(c, document)

SpecConfidence == Init /\ [][NextConfidence]_vars

(***************************************************************************)
(* C22: calculateConfidence returns the arithmetic mean of the per-token   *)
(* break confidences when at least one is available, and one and the same  *)
(* default value in every case where none is (no pages, pages without      *)
(* tokens, tokens without a break confidence).                             *)
(***************************************************************************)
IsConfidenceCall(c) == req[c].route = "calculateConfidence"

\* positions <<page, token>> of the tokens that have a break confidence
Available(document) ==
  IF ~document.hasPages THEN {}
  ELSE {pt \in (1..Len(document.pages)) \X (1..MaxTokens + 1) :
          /\ document.pages[pt[1]].hasTokens
          /\ pt[2] <= Len(document.pages[pt[1]].tokens)
          /\ document.pages[pt[1]].tokens[pt[2]].detectedBreak}

RECURSIVE SumOver(_, _)
SumOver(document, S) ==
  IF S = {} THEN 0
  ELSE LET pt == CHOOSE x \in S : TRUE
       IN document.pages[pt[1]].tokens[pt[2]].confidence + SumOver(document, S \ {pt})

C22_MeanOrOneDefault ==
  /\ \A c \in {1, 2} :
       (IsConfidenceCall(c) /\ Available(req[c].body) # {}) =>
         req[c].out.num * Cardinality(Available(req[c].body))
           = SumOver(req[c].body, Available(req[c].body)) * req[c].out.den
  /\ \A c, d \in {1, 2} :
       (/\ IsConfidenceCall(c) /\ Available(req[c].body) = {}
        /\ IsConfidenceCall(d) /\ Available(req[d].body) = {})
         => req[c].out = req[d].out


(***************************************************************************)
(* C23: when NODE_ENV is not 'development', no 500 response, whether sent  *)
(* by errorHandler or by a controller's own catch block, carries the       *)
(* message of the internal or upstream error in its body.                  *)
(***************************************************************************)
\* messages of errors thrown by Firestore, the storage stream, the OCR and Gemini clients
\* and the runtime, as opposed to the fixed texts the controllers write themselves
InternalMessages ==
  {"firestore error", "stream error", "Google Cloud Storage not initialized",
   "Document processing failed: upstream",
   "Document processing failed: No text extracted from document",
   "Analysis failed: upstream", "Analysis failed: No response generated from Gemini",
   "Chat failed: upstream", "Chat failed: No response generated from Gemini",
   "Cannot read properties of null"}

C23_NoInternalMessageIn500 ==
  \A r \in Req :
    (req[r].status = 500 /\ env.NODE_ENV # "development") => req[r].error \notin InternalMessages


(***************************************************************************)
(* Listing analyses alone: one GET /api/analyze/history by u1 over a store *)
(* that holds MaxDocs analyses of either user for document 1 or 3, with    *)
(* equal and different creation times, for every page and limit, with and  *)
(* without the documentId filter.  Nothing writes to the store.            *)
(***************************************************************************)
AnalysisShapes ==
  [userId : Users, documentId : {1, 3}, seconds : {0, 1}]

ListedAnalysis(id, shape) ==
  [StoredAnalysis(shape.userId, id, shape.documentId, 2, "a.pdf")
     EXCEPT !.createdAt = [seconds |-> shape.seconds], !.updatedAt = [seconds |-> shape.seconds]]

InitFilter ==
  /\ req = [r \in Req |-> IdleReq]
  /\ blobs = StoredBlobs
  /\ documents = StoredDocuments
  /\ \E shape \in [1..MaxDocs -> AnalysisShapes] :
       analyses = [id \in 1..MaxDocs |-> ListedAnalysis(id, shape[id])]
  /\ history = [u \in Users |-> <<>>]
  /\ now = 1
  /\ uuids = 6
  /\ bucketReady = TRUE
  /\ expired = {}
  /\ env = [NODE_ENV |-> "production", MAX_FILE_SIZE |-> 0]
  /\ chatBox = NoChatBox

FilterQueries ==
  [page : 1..3, limit : {1, 2}, sortBy : {"createdAt"}, order : {"desc"}, documentId : {0, 1, 3}]

NextFilter ==
  \/ \E query \in FilterQueries :
       Arrive(1, "GET /api/analyze/history", Bearer("t1"), NoFile, NoBody, 0, query)
  \/ authMiddleware(1)
  \/ HistorySteps(1)

SpecFilter == InitFilter /\ [][NextFilter]_vars

(***************************************************************************)
(* C24: getUserAnalyses called with a documentId filter returns, on every  *)
(* page p >= 1, only analyses whose documentId equals the filter and whose *)
(* userId equals the requester: the filter of page 1 is applied on every   *)
(* later page as well.                                                     *)
(***************************************************************************)
IsHistoryListing(r) == req[r].route = "GET /api/analyze/history" /\ req[r].status = 200

C24_FilterOnEveryPage ==
  \A r \in Req :
    (IsHistoryListing(r) /\ req[r].query.documentId # 0) =>
      \A i \in 1..Len(req[r].out.analyses) :
        /\ req[r].out.analyses[i].documentId = req[r].query.documentId
        /\ req[r].out.analyses[i].userId = req[r].user


(***************************************************************************)
(* One request by u1 or u2 over the populated store on each route that     *)
(* reads a blob: analysis and chat by documentId or directly by gcsUri, a  *)
(* signed URL by gcsUri, and a download link by document id.               *)
(***************************************************************************)
BlobUris == {GcsUri(StoredObject(2, "a.pdf")), GcsUri(StoredObject(4, "b.pdf"))}

NextCross ==
  \/ \E route \in {"POST /api/analyze/analyze", "POST /api/analyze/chat"}, h \in GoodHeaders,
        id \in {0, 1, 3}, uri \in BlobUris \cup {NoUri} :
       Arrive(1, route, h, NoFile,
              [NoBody EXCEPT !.documentId = id, !.gcsUri = uri, !.message = "m"], 0, NoQuery)
  \/ \E h \in GoodHeaders, uri \in BlobUris :
       Arrive(1, "POST /api/upload/signed-url", h, NoFile, [NoBody EXCEPT !.gcsUri = uri],
              0, NoQuery)
  \/ \E h \in GoodHeaders, id \in {1, 3} :
       Arrive(1, "GET /api/documents/:id/download", h, NoFile, NoBody, id, NoQuery)
  \/ authMiddleware(1)
  \/ optionalAuth(1)
  \/ AnalyzeSteps(1)
  \/ ChatSteps(1)
  \/ uploadGetSignedUrl(1)
  \/ uploadGetSignedUrlSigned(1)
  \/ downloadDocument(1)
  \/ downloadDocumentLoaded(1)
  \/ getSignedUrl(1)

SpecCross == InitStored /\ [][NextCross]_vars

(***************************************************************************)
(* C25: no request authenticated as user A has text extracted, an analysis *)
(* or chat answer produced, or a signed download URL issued for a blob of  *)
(* a document owned by another user B, also when A addresses the blob by   *)
(* gcsUri instead of by documentId.                                        *)
(***************************************************************************)
OwnersOf(uri) == {documents[d].userId : d \in {x \in DOMAIN documents : documents[x].gcsUri = uri}}

Foreign(r, uri) == \E u \in OwnersOf(uri) : u # req[r].user

ExtractedFrom(r) == (IsAnalyze(r) \/ IsChat(r)) /\ req[r].loc.ocr = "text"

AnsweredFrom(r) == (IsAnalyze(r) \/ IsChat(r)) /\ req[r].status = 200

SignedFor(r) ==
  /\ req[r].route \in {"POST /api/upload/signed-url", "GET /api/documents/:id/download"}
  /\ req[r].status = 200

C25_NoCrossUserProcessing ==
  \A r \in Req :
    /\ ExtractedFrom(r) => ~Foreign(r, req[r].body.gcsUri)
    /\ AnsweredFrom(r) => ~Foreign(r, req[r].body.gcsUri) /\ ~Foreign(r, req[r].loc.gcsUri)
    /\ SignedFor(r) => ~Foreign(r, req[r].loc.gcsUri)


(***************************************************************************)
(* services/googleCloud.js: initializeGoogleCloud, as startServer runs it  *)
(* (initializeServices catches its error and the server listens anyway).   *)
(* The call is recorded in slot 1: status 200 when it resolved, 500 with   *)
(* the error's message when it threw.                                      *)
(***************************************************************************)
\* what start-up can meet: storage.bucket() throws without a bucket name (line 18),
\* bucket.exists() rejects (line 21), answers false (lines 22-24), or answers true
StartupOutcomes == {"no bucket name", "exists rejected", "bucket missing", "ready"}

\* module variable `bucket` after the call: line 18 assigns it before the test of lines 21-24
bucketAssigned(outcome) == outcome # "no bucket name"

initializeGoogleCloud ==
  /\ req[1].route = ""
  /\ \E outcome \in StartupOutcomes :
       /\ outcome = "bucket missing" => blobs = {}
       /\ bucketReady' = bucketAssigned(outcome)
       /\ req' = [req EXCEPT ![1] =
            [Called("initializeGoogleCloud", 0, NoBody, <<>>,
                    IF outcome = "ready" THEN 200 ELSE 500)
               EXCEPT !.error = IF outcome = "ready" THEN "" ELSE outcome]]
  /\ UNCHANGED <<chatBox, blobs, documents, analyses, history, now, uuids, expired, env>>

\* the process before startServer: `let bucket;` is undefined; the store is what earlier
\* runs left, either the populated store or nothing at all
InitStartup ==
  /\ req = [r \in Req |-> IdleReq]
  /\ \E populated \in BOOLEAN :
       /\ blobs = IF populated THEN StoredBlobs ELSE {}
       /\ documents = IF populated THEN StoredDocuments ELSE <<>>
       /\ analyses = IF populated THEN StoredAnalyses ELSE <<>>
  /\ history = [u \in Users |-> <<>>]
  /\ now = 0
  /\ uuids = 6
  /\ bucketReady = FALSE
  /\ expired = {}
  /\ env = [NODE_ENV |-> "production", MAX_FILE_SIZE |-> 0]
  /\ chatBox = NoChatBox

\* app.listen follows initializeServices: the request of slot 2 arrives after start-up
Listening == req[1].route = "initializeGoogleCloud"

NextStartup ==
  \/ initializeGoogleCloud
  \/ Listening /\ \E h \in GoodHeaders :
       Arrive(2, "POST /api/documents/upload", h, SmallPdf, NoBody, 0, NoQuery)
  \/ Listening /\ \E route \in {"DELETE /api/documents/:id", "GET /api/documents/:id/download"},
                      h \in GoodHeaders :
       Arrive(2, route, h, NoFile, NoBody, 1, NoQuery)
  \/ Listening /\ \E h \in GoodHeaders :
       Arrive(2, "POST /api/upload/signed-url", h, NoFile,
              [NoBody EXCEPT !.gcsUri = GcsUri(StoredObject(2, "a.pdf"))], 0, NoQuery)
  \/ UploadSteps(2)
  \/ optionalAuth(2)
  \/ deleteDocument(2)
  \/ deleteDocumentLoaded(2)
  \/ deleteFromGCS(2)
  \/ deleteDocumentDeleted(2)
  \/ downloadDocument(2)
  \/ downloadDocumentLoaded(2)
  \/ getSignedUrl(2)
  \/ uploadGetSignedUrl(2)
  \/ uploadGetSignedUrlSigned(2)

SpecStartup == InitStartup /\ [][NextStartup]_vars

(***************************************************************************)
(* C26: a blob operation (uploadToGCS, deleteFromGCS, getSignedUrl) is     *)
(* attempted against the bucket handle only when initializeGoogleCloud has *)
(* completed successfully; in particular not after it has thrown because   *)
(* the bucket does not exist.                                              *)
(***************************************************************************)
InitializedOk == req[1].route = "initializeGoogleCloud" /\ req[1].status = 200

BlobOperations == {"gcs.write", "gcs.delete", "gcs.sign"}

C26_NoBlobOperationUninitialized ==
  \A r \in Req : req[r].ext \cap BlobOperations # {} => InitializedOk


(***************************************************************************)
(* Express dispatch inside a router: the registrations of a router in the  *)
(* order of its router.METHOD calls; a request runs the first registration *)
(* whose method and path pattern match, and the app's "*" handler when     *)
(* none does.  A path is its sequence of segments below the mount.         *)
(***************************************************************************)
Route(method, pattern, name) == [method |-> method, pattern |-> pattern, name |-> name]

analyzeRoutes ==
  <<Route("POST", <<"analyze">>, "POST /api/analyze/analyze"),
    Route("POST", <<"chat">>, "POST /api/analyze/chat"),
    Route("GET", <<"history">>, "GET /api/analyze/history"),
    Route("GET", <<":id">>, "GET /api/analyze/:id"),
    Route("DELETE", <<":id">>, "DELETE /api/analyze/:id"),
    Route("GET", <<"health">>, "GET /api/analyze/health")>>

historyRoutes ==
  <<Route("GET", <<>>, "GET /api/history"),
    Route("GET", <<":id">>, "GET /api/history/:id"),
    Route("DELETE", <<":id">>, "DELETE /api/history/:id"),
    Route("GET", <<"health">>, "GET /api/history/health")>>

uploadRoutes ==
  <<Route("POST", <<>>, "POST /api/upload"),
    Route("POST", <<"signed-url">>, "POST /api/upload/signed-url"),
    Route("GET", <<"health">>, "GET /api/upload/health")>>

Mounts == {"/api/analyze", "/api/history", "/api/upload"}

RouterOf(mount) ==
  CASE mount = "/api/analyze" -> analyzeRoutes
    [] mount = "/api/history" -> historyRoutes
    [] mount = "/api/upload" -> uploadRoutes

\* a pattern segment that starts with ':' is a parameter and matches any one segment
IsParam(segment) == segment = ":id"

MatchesRoute(route, method, path) ==
  /\ route.method = method
  /\ Len(route.pattern) = Len(path)
  /\ \A i \in 1..Len(path) : IsParam(route.pattern[i]) \/ route.pattern[i] = path[i]

\* the first matching registration in registration order, or the app's "*" handler
Dispatch(routes, method, path) ==
  LET hits == {i \in 1..Len(routes) : MatchesRoute(routes[i], method, path)} IN
  IF hits = {} THEN Route(method, path, "*")
  ELSE routes[CHOOSE i \in hits : \A j \in hits : i <= j]

\* req.params.id: record ids are numbers here; a segment that is no record's id,
\* 'health' included, is the id 9 that no record has
ParamId(route, path) ==
  IF \E i \in 1..Len(route.pattern) : IsParam(route.pattern[i])
    THEN (IF path = <<"5">> THEN 5 ELSE IF path = <<"6">> THEN 6 ELSE 9)
    ELSE 0

Receive(r, mount, method, path, hdr, body) ==
  LET route == Dispatch(RouterOf(mount), method, path) IN
  /\ req[r].route = ""
  /\ \A s \in Req : s < r => req[s].route # ""
  /\ req' = [req EXCEPT ![r] =
       [IdleReq EXCEPT !.route = route.name, !.chain = Chain(route.name), !.hdr = hdr,
                       !.body = body, !.id = ParamId(route, path),
                       !.url = [mount |-> mount, method |-> method, path |-> path]]]
  /\ UNCHANGED <<chatBox, blobs, documents, analyses, history, now, uuids, bucketReady, expired, env>>

\* the routers' health handlers: res.json({status: '... service is running', ...})
health(r) ==
  /\ At(r, "health")
  /\ req' = [req EXCEPT ![r] =
       Respond(req[r], 200, "", [status |-> "service is running", mount |-> req[r].url.mount])]
  /\ UNCHANGED <<chatBox, blobs, documents, analyses, history, now, uuids, bucketReady, expired, env>>

\* app.use("*"): 404 Route not found
notFound(r) ==
  /\ At(r, "notFound")
  /\ req' = [req EXCEPT ![r] = Respond(req[r], 404, "Route not found", <<>>)]
  /\ UNCHANGED <<chatBox, blobs, documents, analyses, history, now, uuids, bucketReady, expired, env>>

(***************************************************************************)
(* One request by u1 or u2 over the populated store with any method and    *)
(* path below the three mounts whose routers advertise a health endpoint.  *)
(***************************************************************************)
Paths ==
  {<<>>, <<"health">>, <<"history">>, <<"analyze">>, <<"chat">>, <<"signed-url">>, <<"5">>, <<"6">>}

DispatchBodies ==
  {[NoBody EXCEPT !.documentId = id, !.gcsUri = GcsUri(StoredObject(2, "a.pdf")), !.message = "m"] :
     id \in {0, 1}}

NextDispatch ==
  \/ \E mount \in Mounts, method \in {"GET", "POST", "DELETE"}, path \in Paths,
        h \in GoodHeaders, body \in DispatchBodies :
       Receive(1, mount, method, path, h, body)
  \/ authMiddleware(1)
  \/ optionalAuth(1)
  \/ AnalyzeSteps(1)
  \/ ChatSteps(1)
  \/ AnalysisRecordSteps(1)
  \/ validatePagination(1)
  \/ getAnalysisHistory(1)
  \/ getUserAnalysesQuery(1)
  \/ uploadFile(1)
  \/ uploadGetSignedUrl(1)
  \/ uploadGetSignedUrlSigned(1)
  \/ health(1)
  \/ notFound(1)

SpecDispatch == InitStored /\ [][NextDispatch]_vars

(***************************************************************************)
(* C27: GET /health on the analyze router and on the history router is     *)
(* dispatched to the router's health handler and answers the service       *)
(* status: no route registered earlier in the same router, GET /:id in     *)
(* particular, captures the request first.                                 *)
(***************************************************************************)
AsksHealth(r) ==
  /\ req[r].url.mount \in {"/api/analyze", "/api/history"}
  /\ req[r].url.method = "GET"
  /\ req[r].url.path = <<"health">>

C27_HealthReachable ==
  \A r \in Req :
    AsksHealth(r) =>
      /\ req[r].route \in {"GET /api/analyze/health", "GET /api/history/health"}
      /\ Finished(r) => req[r].status = 200 /\ req[r].out.status = "service is running"


(***************************************************************************)
(* Frontend/components/ChatBox.tsx.  chatBox holds the props               *)
(* (initialMessage, onSend present or not, isLoading), the component state *)
(* (messages, input, loading) and, for every handleSend suspended at       *)
(* `await onSend(text)`, the values its closure captured.  A message's     *)
(* timestamp is the ordinal of the send that created it (0 for the initial *)
(* message).                                                               *)
(***************************************************************************)
MaxSends == 2

Typed == {"", " ", "a", " b "}

\* input.trim()
Trim(s) == IF s = " " THEN "" ELSE IF s = " b " THEN "b" ELSE s

Message(role, content, timestamp) == [role |-> role, content |-> content, timestamp |-> timestamp]

\* lines 97-101: the list clearChat sets, also what the effect of lines 33-41 sets
InitialMessages(box) ==
  IF box.initialMessage # "" THEN <<Message("assistant", box.initialMessage, 0)>> ELSE <<>>

\* useEffect of lines 33-41, run after a render that changed initialMessage or messages.length
initialMessageEffect(box) ==
  IF box.initialMessage # "" /\ box.messages = <<>>
    THEN [box EXCEPT !.messages = InitialMessages(box)]
    ELSE box

\* line 63 and line 80: the assistant's text for each way onSend can settle
Reply(outcome) ==
  CASE outcome = "string" -> "answer"
    [] outcome = "void" -> "Sorry, I couldn't process your request."
    [] outcome = "rejected" -> "Sorry, there was an error processing your request."

\* Mutant: setLoading(false) sits at the end of the try block instead of in finally.
SettledWithoutFinally(box, send, outcome) ==
  [box EXCEPT !.messages = Append(send.nextMessages, Message("assistant", Reply(outcome), send.n)),
              !.loading = IF outcome = "rejected" THEN @ ELSE FALSE,
              !.awaiting = Tail(@)]

\* lines 68-86 after the await: setMessages([...nextMessages, reply]) and setLoading(false)
Settled(box, send, outcome) ==
  [box EXCEPT !.messages = Append(send.nextMessages, Message("assistant", Reply(outcome), send.n)),
              !.loading = FALSE,
              !.awaiting = Tail(@)]

\* the parent passes a new initialMessage (chat/page.tsx sets documentInfo after mounting)
setInitialMessage ==
  /\ chatBox.initialMessage = ""
  /\ chatBox' = initialMessageEffect([chatBox EXCEPT !.initialMessage = "hello"])
  /\ UNCHANGED <<req, blobs, documents, analyses, history, now, uuids, bucketReady, expired, env>>

\* the parent changes the isLoading prop
setIsLoading ==
  /\ chatBox' = [chatBox EXCEPT !.isLoading = ~@]
  /\ UNCHANGED <<req, blobs, documents, analyses, history, now, uuids, bucketReady, expired, env>>

\* onChange of the input, which is disabled while loading || isLoading
setInput(text) ==
  /\ ~(chatBox.loading \/ chatBox.isLoading)
  /\ chatBox' = [chatBox EXCEPT !.input = text]
  /\ UNCHANGED <<req, blobs, documents, analyses, history, now, uuids, bucketReady, expired, env>>

\* line 45: an empty text, loading or isLoading makes handleSend return at once
Accepts(box) == Trim(box.input) # "" /\ ~box.loading /\ ~box.isLoading

\* handleSend up to `await onSend(text)`; without onSend it runs to its end in the same task
handleSend ==
  /\ Accepts(chatBox)
  /\ chatBox.sends < MaxSends
  /\ LET text == Trim(chatBox.input)
         n == chatBox.sends + 1
         nextMessages == Append(chatBox.messages, Message("user", text, n))
         sent == [chatBox EXCEPT !.input = "", !.loading = TRUE, !.messages = nextMessages,
                                 !.sends = n,
                                 !.awaiting = Append(@, [text |-> text, n |-> n,
                                                         nextMessages |-> nextMessages])]
     IN chatBox' = IF chatBox.onSend
                     THEN sent
                     ELSE [Settled(sent, Head(sent.awaiting), "void")
                             EXCEPT !.messages[Len(nextMessages) + 1].content =
                                      "No response handler configured."]
  /\ UNCHANGED <<req, blobs, documents, analyses, history, now, uuids, bucketReady, expired, env>>

\* the promise of onSend resolves with a string, resolves with something else, or rejects
onSendSettles ==
  /\ chatBox.awaiting # <<>>
  /\ \E outcome \in {"string", "void", "rejected"} :
       chatBox' = Settled(chatBox, Head(chatBox.awaiting), outcome)
  /\ UNCHANGED <<req, blobs, documents, analyses, history, now, uuids, bucketReady, expired, env>>

\* the Clear Chat button is rendered while messages.length > (initialMessage ? 1 : 0)
clearChat ==
  /\ Len(chatBox.messages) > Len(InitialMessages(chatBox))
  /\ chatBox' = [chatBox EXCEPT !.messages = InitialMessages(chatBox)]
  /\ UNCHANGED <<req, blobs, documents, analyses, history, now, uuids, bucketReady, expired, env>>

\* the component mounted with or without an initial message and an onSend handler
InitChatBox ==
  /\ req = [r \in Req |-> IdleReq]
  /\ blobs = {}
  /\ documents = <<>>
  /\ analyses = <<>>
  /\ history = [u \in Users |-> <<>>]
  /\ now = 0
  /\ uuids = 0
  /\ bucketReady = TRUE
  /\ expired = {}
  /\ env = [NODE_ENV |-> "production", MAX_FILE_SIZE |-> 0]
  /\ \E initialMessage \in {"", "hello"}, onSend \in BOOLEAN :
       chatBox = initialMessageEffect([NoChatBox EXCEPT !.initialMessage = initialMessage,
                                                        !.onSend = onSend])

NextChatBox ==
  \/ setInitialMessage
  \/ setIsLoading
  \/ \E text \in Typed : setInput(text)
  \/ handleSend
  \/ onSendSettles
  \/ clearChat

\* every promise returned by onSend settles
SpecChatBox == InitChatBox /\ [][NextChatBox]_vars /\ WF_vars(onSendSettles)

(***************************************************************************)
(* C28: ChatBox send protocol.  While a send is in flight no further       *)
(* handleSend is accepted, so at most one onSend call is outstanding;      *)
(* every accepted send appends exactly one user message, and when onSend   *)
(* resolves or rejects that user message is immediately followed by        *)
(* exactly one assistant message; loading returns to false in the success  *)
(* and in the error case.                                                  *)
(***************************************************************************)
MessagesOfSend(n, messages) == {i \in 1..Len(messages) : messages[i].timestamp = n}

C28_OneOutstanding ==
  /\ Len(chatBox.awaiting) <= 1
  /\ chatBox.loading <=> chatBox.awaiting # <<>>
  /\ chatBox.loading => ~Accepts(chatBox)

C28_AcceptedAppendsUser ==
  (chatBox'.sends # chatBox.sends /\ chatBox.onSend) =>
    /\ chatBox'.messages = Append(chatBox.messages,
                                  Message("user", Trim(chatBox.input), chatBox'.sends))
    /\ chatBox'.loading

C28_SettledAppendsAssistant ==
  Len(chatBox'.awaiting) < Len(chatBox.awaiting) =>
    LET n == Head(chatBox.awaiting).n
        m == chatBox'.messages
    IN /\ Len(m) >= 2
       /\ m[Len(m) - 1] = Message("user", Head(chatBox.awaiting).text, n)
       /\ m[Len(m)].role = "assistant" /\ m[Len(m)].timestamp = n
       /\ MessagesOfSend(n, m) = {Len(m) - 1, Len(m)}
       /\ ~chatBox'.loading

C28_SendProtocol ==
  /\ []C28_OneOutstanding
  /\ [][C28_AcceptedAppendsUser /\ C28_SettledAppendsAssistant]_vars
  /\ (chatBox.loading ~> ~chatBox.loading)

\* the second send was answered by a rejected onSend and the first by a resolved one
C28_Witness ==
  /\ chatBox.sends = 2
  /\ ~chatBox.loading
  /\ Len(chatBox.messages) >= 4
  /\ chatBox.messages[Len(chatBox.messages)] =
       Message("assistant", Reply("rejected"), 2)
  /\ chatBox.messages[Len(chatBox.messages) - 2] = Message("assistant", Reply("string"), 1)


(***************************************************************************)
(* C29: after clearChat the message list holds at most the initial         *)
(* assistant message until the user starts a new send: a message removed   *)
(* by clearChat never reappears, also when clearChat runs while an earlier *)
(* send is in flight and that send completes afterwards.  User messages    *)
(* are created by accepted sends only, so a user message that enters the   *)
(* list in a step that starts no send is one that had been removed.        *)
(***************************************************************************)
UserMessages(box) ==
  {box.messages[i] : i \in {j \in 1..Len(box.messages) : box.messages[j].role = "user"}}

C29_Step ==
  chatBox'.sends = chatBox.sends => UserMessages(chatBox') \subseteq UserMessages(chatBox)

C29_ClearedNeverReappear == [][C29_Step]_vars


(***************************************************************************)
(* C30: in every reachable state, also after a step of an upload or a      *)
(* delete request has failed and while requests for the same document      *)
(* interleave, every record of the documents collection has a gcsUri that  *)
(* names a blob present in the bucket.                                     *)
(***************************************************************************)
Dangling(id) == ObjectOf(documents[id].gcsUri) \notin blobs

C30_NoDanglingRecord == \A id \in DOMAIN documents : ~Dangling(id)

\* the same with every request answered: the dangling record outlives the failed deletion
C30_NoDanglingRecordAtRest ==
  (\A r \in Req : req[r].route # "" => Finished(r)) => C30_NoDanglingRecord

====
